---- MODULE Spec2Model ----
(***************************************************************************)
(* Model of the tank control broker: the ConnectionManager device registry *)
(* (control_broker/services/connection_manager.py) and the Redis command   *)
(* listener (control_broker/services/redis_listener.py).                   *)
(*                                                                         *)
(* The program runs on one asyncio event loop.  A task runs without        *)
(* interruption from one await that suspends to the next one, so an action *)
(* of this model is one such stretch of code: the call of a coroutine up   *)
(* to its first suspension, or the completion of one socket / Redis        *)
(* operation followed by the code up to the next suspension.  Acquiring a  *)
(* free asyncio.Lock does not suspend; acquiring a held one does.          *)
(***************************************************************************)
EXTENDS Integers, FiniteSets, Sequences, TLC

\* ------------------------------------------------------------------ bounds
MaxTime == 2                \* the clock runs over 0..MaxTime (seconds)
StaleTimeoutSeconds == 1    \* the stale_timeout_seconds constructor argument
MaxCommands == 1            \* cap of a record's commands_sent counter
MaxEntries == 2             \* entries ever appended to the command stream
MaxStream == 2              \* entries ever appended to the status / radar stream
MaxClients == 3             \* Redis clients ever created by redis.from_url
MaxFrameLen == 4            \* tokens of an inbound device frame

\* ------------------------------------------------------- program constants
CLOSE_STALE == 1011         \* close code used by _prune_stale and register_tank
CLOSE_RESET == 1012         \* close code used by force_reset
CLOSE_SHUTDOWN == 1001      \* close code used by close_all
XREAD_COUNT == 20           \* count= of the listener's xread
VXREAD_COUNT == 50          \* count= of the xread of status_listener / radar_listener

\* ------------------------------------------------------------ value domains
TankIds == {"T1", "T2"}
Sockets == {"wsA", "wsB"}
\* Every WebSocket object there is: a third one for a device that connects
\* again while two of its connections are still being handled.
Connections == Sockets \cup {"wsC"}
Payloads == {"p1"}        \* telemetry bodies a device sends
Commands == {"stop"}     \* command bodies forwarded to a device
None == "None"
Listener == "listener"   \* the task running RedisCommandListener.start
Tasks == {"t1", "t2", Listener}
SeqTasks == {"t1"}       \* the task calling the registry from a handler
HandlerTasks == {"t1", "t2"}   \* two tank_channel handlers of one device
NoTask == "NoTask"

\* The visual controller (visual_controller/app.py), a process of its own.
Observers == {"o1", "o2"}          \* UI WebSockets, one ui_socket handler each
Streams == {"status", "radar"}     \* status_listener and radar_listener
Submitters == {"s1", "s2"}         \* requests running enqueue_command
VTasks == Observers \cup Streams \cup Submitters

VARIABLES
    now,        \* utcnow(), in seconds
    tanks,      \* ConnectionManager._tanks: tank_id -> TankInfo (a dict)
    lock,       \* holder of ConnectionManager._lock, or NoTask
    sockState,  \* per WebSocket: "new" (not accepted), "open", "closed"
    closeCode,  \* per WebSocket: code of the close() the manager called, or 0
    pc,         \* per task: where the task is suspended
    op,         \* per task: the coroutine it runs and its arguments
    t_now,      \* per task: the local variable `now`
    to_close,   \* per task: the local list to_close of _prune_stale
    websocket,  \* per task: the local variable `websocket` of forward_to_tank
    result,     \* per task: how the finished call ended
    pre,        \* per task: the registry and the clock when the call began
    snap,       \* per task: the list returned by snapshot()
    close_error, \* per task: a close under suppress(Exception) raised in this call
    first_frame, \* per WebSocket: the first frame the device received on it
    reported,   \* per tank_id: commandsSent in the last snapshot a monitor was given
    conn_lost,  \* the listener's last xread raised ConnectionError
    cancelled_in, \* where the listener was suspended when it was cancelled
    shutdown,   \* how far on_shutdown has come
    fpc,        \* tank_channel: where the handling of an inbound frame is
    message,    \* tank_channel: the text of the frame received
    fpayload,   \* tank_channel: the local variable `payload`
    given,      \* the payload argument update_last_seen was called with
    stored,     \* whether the frame was appended to the status stream
    cmdlog,     \* every entry ever appended to the command stream; ID = index
    present,    \* IDs of the entries the command stream holds now
    last_id,    \* the listener's local last_id
    batch,      \* the listener's messages still to process, of the last xread
    message_id, \* the entry _process_message is working on, or 0
    applied,    \* per entry: how _process_message's forward ended for it
    xdels       \* per entry: how many xdel calls the listener completed for it

\* What the calls of the registry and the steps of the listener leave alone.
\* What tank_channel keeps while it handles a frame.
FrameVars == <<fpc, message, fpayload, given, stored>>

LifeVars == <<reported, conn_lost, cancelled_in, shutdown, FrameVars>>

ListenerVars == <<cmdlog, present, last_id, batch, message_id, applied, xdels>>

VARIABLES
    subscribers,     \* the defaultdict subscribers: key -> set of WebSockets
    latest,          \* latest_status and latest_radar: per stream, key -> message
    uiState,         \* per UI WebSocket: its application_state
    vpc,             \* per task of the visual controller: where it is suspended
    key,             \* per task: the local tank_id / source_id
    sockets,         \* per task: what is left of the local list `sockets`
    cur_ws,          \* per task: the local `ws` of the loop of broadcast_status
    snaps,           \* per task: the snapshots register_subscriber has yet to send
    msg,             \* per task: the entry ID of the local `message`
    got,             \* per UI WebSocket: the send_text calls made on it
    targets,         \* per task: the list `sockets` as broadcast_status copied it
    handled,         \* per task: what broadcast_status did for each of targets
    joined,          \* per UI WebSocket: caches and mapping when its handler was called
    vlog,            \* per stream: every entry ever appended; ID = index
    vpresent,        \* per stream: IDs of the entries the stream holds now
    vlast,           \* per stream: the local last_id of its listener
    vbatch,          \* per stream: the messages of the last xread still to process
    seen             \* per stream: the entries its listener cached and broadcast

VARIABLES
    redis,           \* app.state.redis: the current client, or None
    redis_lock,      \* holder of redis_client_lock, or NoTask
    redis_waiters,   \* the tasks waiting for redis_client_lock, first come first
    clientState,     \* per client: "none" (not created), "open", "closed"
    made,            \* number of clients created so far
    existing,        \* per task: the local `existing` of reset_redis_client
    new_client,      \* per task: the local `new_client` / `client`
    ctx,             \* per task: from where reset_redis_client was called
    last_error,      \* per task: the local last_error of append_command
    redis_client,    \* per task: the local redis_client
    attempt,         \* per task: the local attempt of append_command
    vres,            \* per task: how the finished request ended
    landed           \* per task: entries the request's xadd calls appended

ClientVars == <<redis, redis_lock, redis_waiters, clientState, made, existing, new_client, ctx,
                last_error, redis_client, attempt, vres, landed>>

FanoutVars == <<subscribers, latest, uiState, vpc, key, sockets,
                cur_ws, snaps, msg, got, targets, handled, joined>>

StreamVars == <<vlog, vpresent, vlast, vbatch, seen>>

VisualVars == <<FanoutVars, StreamVars, ClientVars>>

BrokerVars == <<now, tanks, lock, sockState, closeCode, pc, op, t_now, to_close,
                websocket, result, pre, snap, close_error, first_frame, LifeVars,
                cmdlog, present, last_id, batch, message_id, applied, xdels>>

vars == <<now, tanks, lock, sockState, closeCode, pc, op, t_now, to_close,
          websocket, result, pre, snap, close_error, first_frame, LifeVars,
          cmdlog, present, last_id, batch, message_id, applied, xdels, VisualVars>>

\* ------------------------------------------------------------------ helpers
Max(a, b) == IF a > b THEN a ELSE b

\* self._stale_timeout = timedelta(seconds=max(1, stale_timeout_seconds))
StaleTimeout == Max(1, StaleTimeoutSeconds)

EmptyTanks == [id \in {} |-> None]
NoOp == [name |-> "none", tank_id |-> None, websocket |-> None, payload |-> None]
NoPre == [tanks |-> EmptyTanks, now |-> 0]
NoSnap == [id \in {} |-> None]

\* TankInfo(tank_id=..., connected_at=..., last_seen=..., last_payload=...,
\*          commands_sent=..., websocket=...)
TankInfo(tank_id, connected_at, last_seen, last_payload, commands_sent, ws) ==
    [tank_id |-> tank_id, connected_at |-> connected_at, last_seen |-> last_seen,
     last_payload |-> last_payload, commands_sent |-> commands_sent,
     websocket |-> ws]

\* self._tanks[tank_id] = info
Put(tk, id, info) ==
    [k \in (DOMAIN tk) \cup {id} |-> IF k = id THEN info ELSE tk[k]]

\* self._tanks.pop(tank_id, None)
Pop(tk, ids) == [k \in (DOMAIN tk) \ ids |-> tk[k]]

\* ------------------------------------------------- the state a task works on
\* The shared state together with the locals of task t, as one record, so that
\* a stretch of code is a function from such a record to such a record.
WaitPcs == {"prune_wait", "reg_wait", "unreg_wait", "fwd_wait", "snap_wait",
            "update_wait", "reset_wait"}

Cur(t) ==
    [now |-> now, tanks |-> tanks, lock |-> lock,
     queued |-> \E u \in Tasks \ {t} : pc[u] \in WaitPcs,
     sockState |-> sockState,
     closeCode |-> closeCode, pc |-> pc[t], t_now |-> t_now[t],
     to_close |-> to_close[t], websocket |-> websocket[t],
     result |-> result[t], snap |-> snap[t], close_error |-> close_error[t],
     first_frame |-> first_frame]

Commit(t, s) ==
    /\ tanks' = s.tanks
    /\ lock' = s.lock
    /\ sockState' = s.sockState
    /\ closeCode' = s.closeCode
    /\ pc' = [pc EXCEPT ![t] = s.pc]
    /\ t_now' = [t_now EXCEPT ![t] = s.t_now]
    /\ to_close' = [to_close EXCEPT ![t] = s.to_close]
    /\ websocket' = [websocket EXCEPT ![t] = s.websocket]
    /\ result' = [result EXCEPT ![t] = s.result]
    /\ snap' = [snap EXCEPT ![t] = s.snap]
    /\ close_error' = [close_error EXCEPT ![t] = s.close_error]
    /\ first_frame' = s.first_frame
    /\ now' = now

\* The coroutine returns (res = "ok") or raises (res names the exception).
Done(s, res) == [s EXCEPT !.pc = "done", !.result = res]

\* Mutant of DoClose: the close is forgotten.
DoClose_Forgotten(s, ws, code) == s

\* await websocket.close(code=...): whether it returns or raises, the socket
\* is not usable afterwards.
DoClose(s, ws, code) ==
    [s EXCEPT !.sockState[ws] = "closed", !.closeCode[ws] = code]

\* The device receives frame f on ws: what it received first is remembered.
Received(s, ws, f) ==
    [s EXCEPT !.first_frame[ws] = IF @ = None THEN f ELSE @]

\* ------------------------------------------------------------ _prune_stale
\* Mutant of IsStale: the comparison includes the threshold.
IsStale_Inclusive(info, n) == (n - info.last_seen) >= StaleTimeout

\* (now - info.last_seen) > self._stale_timeout
IsStale(info, n) == (n - info.last_seen) > StaleTimeout

\* The records the loop of _prune_stale pops.
StaleIds(tk, n) == {id \in DOMAIN tk : IsStale(tk[id], n)}

\* Mutant of StaleSockets: the pruned records' websockets are not collected.
StaleSockets_None(tk, n) == {}

\* The websockets the loop of _prune_stale appends to to_close.
StaleSockets(tk, n) ==
    {tk[id].websocket : id \in {i \in StaleIds(tk, n) : tk[i].websocket # None}}

\* The body of `async with self._lock` in _prune_stale.
prune_locked(s) ==
    [s EXCEPT !.tanks = Pop(s.tanks, StaleIds(s.tanks, s.t_now)),
              !.to_close = StaleSockets(s.tanks, s.t_now)]

\* ----------------------------------------------------------- register_tank
\* Mutant of NewInfo: the new record starts afresh.
NewInfo_Fresh(tk, id, ws, n) ==
    [tank_id |-> id, connected_at |-> n, last_seen |-> n, last_payload |-> None,
     commands_sent |-> 0, websocket |-> ws]

\* info = TankInfo(... last_payload=previous.last_payload if previous else None,
\*                     commands_sent=previous.commands_sent if previous else 0 ...)
NewInfo(tk, id, ws, n) ==
    TankInfo(id, n, n,
             IF id \in DOMAIN tk THEN tk[id].last_payload ELSE None,
             IF id \in DOMAIN tk THEN tk[id].commands_sent ELSE 0,
             ws)

\* previous and previous.websocket
HasLive(tk, id) == id \in DOMAIN tk /\ tk[id].websocket # None

\* self._tanks[tank_id] = info; return info   (lock released on the way out)
register_install(o, s) ==
    Done([s EXCEPT !.tanks = Put(s.tanks, o.tank_id,
                                  NewInfo(s.tanks, o.tank_id, o.websocket, s.now)),
                   !.lock = NoTask],
         "ok")

\* Mutant of register_locked: the previous connection is left as it is.
register_locked_NoClose(t, o, s) == register_install(o, s)

\* async with self._lock: previous = ...; if previous and previous.websocket:
\* the close is awaited with the lock held.
register_locked(t, o, s) ==
    IF HasLive(s.tanks, o.tank_id)
    THEN [s EXCEPT !.lock = t, !.pc = "reg_close"]
    ELSE register_install(o, s)

\* --------------------------------------------------------- unregister_tank
\* Mutant of unregister_locked: the record is dropped instead of kept.
unregister_locked_Pop(o, s) ==
    [s EXCEPT !.tanks = [k \in (DOMAIN s.tanks) \ {o.tank_id} |-> s.tanks[k]],
              !.pc = "done", !.result = "ok"]

\* info = self._tanks.get(tank_id); if not info: return
\* info.websocket = None; info.last_seen = utcnow()
unregister_locked(o, s) ==
    IF o.tank_id \notin DOMAIN s.tanks
    THEN Done(s, "ok")
    ELSE Done([s EXCEPT !.tanks[o.tank_id].websocket = None,
                        !.tanks[o.tank_id].last_seen = s.now],
              "ok")

\* --------------------------------------------------------- forward_to_tank
\* Mutant of forward_locked: the counter is not incremented.
forward_locked_NoCount(o, s) ==
    IF ~(o.tank_id \in DOMAIN s.tanks /\ s.tanks[o.tank_id].websocket # None)
    THEN [s EXCEPT !.pc = "done", !.result = "LookupError"]
    ELSE [s EXCEPT !.websocket = s.tanks[o.tank_id].websocket, !.pc = "fwd_send"]

\* if not info or not info.websocket: raise LookupError
\* info.commands_sent += 1; websocket = info.websocket
forward_locked(o, s) ==
    IF ~HasLive(s.tanks, o.tank_id)
    THEN Done(s, "LookupError")
    ELSE [s EXCEPT !.tanks[o.tank_id].commands_sent = @ + 1,
                   !.websocket = s.tanks[o.tank_id].websocket,
                   !.pc = "fwd_send"]

\* ---------------------------------------------------------------- snapshot
\* One element of the list snapshot() returns.
View(info, n) ==
    [tankId |-> info.tank_id, connected |-> info.websocket # None,
     connectedAt |-> info.connected_at, lastSeen |-> info.last_seen,
     commandsSent |-> info.commands_sent, lastPayload |-> info.last_payload,
     stale |-> n - info.last_seen]

\* now = utcnow(); async with self._lock: infos = ...; the loop building result
snapshot_locked(s) ==
    Done([s EXCEPT !.snap = [id \in DOMAIN s.tanks |-> View(s.tanks[id], s.t_now)]],
         "ok")

\* -------------------------------------------------------- update_last_seen
\* Mutant of update_locked: last_payload is assigned whatever was passed.
update_locked_Overwrite(o, s) ==
    IF o.tank_id \notin DOMAIN s.tanks
    THEN [s EXCEPT !.pc = "done", !.result = "ok"]
    ELSE [s EXCEPT !.tanks[o.tank_id].last_seen = s.now,
                   !.tanks[o.tank_id].last_payload = o.payload,
                   !.pc = "done", !.result = "ok"]

\* info.last_seen = utcnow(); if payload is not None: info.last_payload = payload
update_locked(o, s) ==
    IF o.tank_id \notin DOMAIN s.tanks
    THEN Done(s, "ok")
    ELSE Done([s EXCEPT !.tanks[o.tank_id].last_seen = s.now,
                        !.tanks[o.tank_id].last_payload =
                            IF o.payload # None THEN o.payload ELSE @],
              "ok")

\* -------------------------------------------------------------- force_reset
\* Mutant of force_reset_locked: the record is looked up, not popped.
force_reset_locked_Keep(o, s) ==
    IF o.tank_id \notin DOMAIN s.tanks
    THEN [s EXCEPT !.pc = "done", !.result = "False"]
    ELSE IF s.tanks[o.tank_id].websocket # None
         THEN [s EXCEPT !.websocket = s.tanks[o.tank_id].websocket,
                        !.pc = "reset_close"]
         ELSE [s EXCEPT !.pc = "done", !.result = "True"]

\* async with self._lock: info = self._tanks.pop(tank_id, None)
\* if not info: return False; websocket = info.websocket; if websocket: close
force_reset_locked(o, s) ==
    IF o.tank_id \notin DOMAIN s.tanks
    THEN Done(s, "False")
    ELSE LET ws == s.tanks[o.tank_id].websocket
             s1 == [s EXCEPT !.tanks = Pop(s.tanks, {o.tank_id})]
         IN IF ws # None
            THEN [s1 EXCEPT !.websocket = ws, !.pc = "reset_close"]
            ELSE Done(s1, "True")

\* ------------------------------------------------- sequencing of the stretches
\* `async with self._lock` around body: entered at once when the lock is free
\* and no other task is queued for it (asyncio.Lock is first come, first
\* served), otherwise the task suspends until the lock is handed to it.
WithLock(s, body, waitpc) ==
    IF s.lock = NoTask /\ ~s.queued THEN body ELSE [s EXCEPT !.pc = waitpc]

\* A variant of accepted that enters the registry without the hello frame.
accepted_Install(t, o, s) == WithLock(s, register_locked(t, o, s), "reg_wait")

\* register_tank after websocket.accept() returned: the hello frame is sent,
\* and only when that send is over is the lock asked for.
accepted(t, o, s) == [s EXCEPT !.pc = "reg_hello"]

\* What the caller of _prune_stale does after it returned.
after_prune(t, o, s) ==
    CASE o.name = "register_tank" -> [s EXCEPT !.pc = "reg_accept"]
      [] o.name = "unregister_tank" ->
            WithLock(s, unregister_locked(o, s), "unreg_wait")
      [] o.name = "forward_to_tank" ->
            WithLock(s, forward_locked(o, s), "fwd_wait")
      [] o.name = "snapshot" ->
            LET s1 == [s EXCEPT !.t_now = s.now]
            IN WithLock(s1, snapshot_locked(s1), "snap_wait")
      [] OTHER -> Done(s, "ok")

\* _prune_stale from its lock on: the pops, then the closes outside the lock.
prune_from_lock(t, o, s) ==
    LET s1 == prune_locked(s)
    IN IF s1.to_close # {} THEN [s1 EXCEPT !.pc = "prune_close"]
       ELSE after_prune(t, o, s1)

\* await self._prune_stale(): now = utcnow(), then the lock.
prune_stale(t, o, s) ==
    LET s1 == [s EXCEPT !.t_now = s.now]
    IN WithLock(s1, prune_from_lock(t, o, s1), "prune_wait")

\* ===================================================================
\* The visual controller: the subscriber fan-out and the stream listeners.
\* A message of status_listener / radar_listener is identified by its stream
\* and the ID of the entry it was built from.
\* ===================================================================
EmptySubs == [k \in {} |-> {}]
EmptyCache == [k \in {} |-> 0]
NoHandled == [o \in Observers |-> "none"]
NoJoin == [latest |-> [c \in Streams |-> EmptyCache], subscribers |-> EmptySubs]

\* on_startup has run: reset_redis_client() returned the first client before
\* the listeners were created.
\* app.state.redis = NoClient, and a local that holds no client: clients are
\* numbered from 1 in the order redis.from_url creates them.
NoClient == 0

ClientInit ==
    /\ redis = 1
    /\ redis_lock = NoTask
    /\ redis_waiters = <<>>
    /\ clientState = [i \in 1..MaxClients |-> IF i = 1 THEN "open" ELSE "none"]
    /\ made = 1
    /\ existing = [t \in VTasks |-> NoClient]
    /\ new_client = [t \in VTasks |-> NoClient]
    /\ ctx = [t \in VTasks |-> None]
    /\ last_error = [t \in VTasks |-> None]
    /\ redis_client = [t \in VTasks |-> NoClient]
    /\ attempt = [t \in VTasks |-> 0]
    /\ vres = [t \in VTasks |-> None]
    /\ landed = [t \in VTasks |-> 0]

VisualInit ==
    /\ subscribers = EmptySubs
    /\ latest = [c \in Streams |-> EmptyCache]
    /\ uiState = [o \in Observers |-> "connecting"]
    /\ vpc = [t \in VTasks |-> "idle"]
    /\ key = [t \in VTasks |-> None]
    /\ sockets = [t \in VTasks |-> {}]
    /\ cur_ws = [t \in VTasks |-> None]
    /\ snaps = [t \in VTasks |-> <<>>]
    /\ msg = [t \in VTasks |-> 0]
    /\ got = [o \in Observers |-> {}]
    /\ targets = [t \in VTasks |-> {}]
    /\ handled = [t \in VTasks |-> NoHandled]
    /\ joined = [o \in Observers |-> NoJoin]
    /\ vlog = [c \in Streams |-> <<>>]
    /\ vpresent = [c \in Streams |-> {}]
    /\ vlast = [c \in Streams |-> 0]
    /\ vbatch = [c \in Streams |-> <<>>]
    /\ seen = [c \in Streams |-> {}]
    /\ ClientInit

\* The shared state of the fan-out together with the locals of task t.
\* No body of `async with subscriber_lock` contains an await, so the lock is
\* free whenever a task reaches it: a body is part of the stretch that
\* reaches it, and the lock needs no variable.
VCur(t) ==
    [subscribers |-> subscribers, latest |-> latest,
     uiState |-> uiState, got |-> got, pc |-> vpc[t], key |-> key[t],
     sockets |-> sockets[t], ws |-> cur_ws[t], snaps |-> snaps[t], msg |-> msg[t],
     targets |-> targets[t], handled |-> handled[t]]

VCommit(t, s) ==
    /\ subscribers' = s.subscribers
    /\ latest' = s.latest
    /\ uiState' = s.uiState
    /\ got' = s.got
    /\ vpc' = [vpc EXCEPT ![t] = s.pc]
    /\ key' = [key EXCEPT ![t] = s.key]
    /\ sockets' = [sockets EXCEPT ![t] = s.sockets]
    /\ cur_ws' = [cur_ws EXCEPT ![t] = s.ws]
    /\ snaps' = [snaps EXCEPT ![t] = s.snaps]
    /\ msg' = [msg EXCEPT ![t] = s.msg]
    /\ targets' = [targets EXCEPT ![t] = s.targets]
    /\ handled' = [handled EXCEPT ![t] = s.handled]

\* subscribers.get(tank_id, [])
SubGet(subs, k) == IF k \in DOMAIN subs THEN subs[k] ELSE {}

\* subscribers[tank_id].add(websocket), subscribers being a defaultdict(set)
SubAdd(subs, k, o) ==
    [kk \in (DOMAIN subs) \cup {k} |->
        IF kk = k THEN SubGet(subs, k) \cup {o} ELSE subs[kk]]

\* Mutant of SubDiscard: the emptied bucket is left in the mapping.
SubDiscard_KeepEmpty(subs, k, o) ==
    IF k \notin DOMAIN subs \/ subs[k] = {} THEN subs
    ELSE [subs EXCEPT ![k] = @ \ {o}]

\* bucket = subscribers.get(tank_id); if not bucket: return
\* bucket.discard(websocket); if not bucket: subscribers.pop(tank_id, None)
SubDiscard(subs, k, o) ==
    IF k \notin DOMAIN subs \/ subs[k] = {} THEN subs
    ELSE IF subs[k] \ {o} = {}
         THEN [kk \in (DOMAIN subs) \ {k} |-> subs[kk]]
         ELSE [subs EXCEPT ![k] = @ \ {o}]

\* Mutant of Snapshots: a joining observer is sent nothing.
Snapshots_None(l, k) == <<>>

\* telemetry_snapshot = latest_status.get(tank_id)
\* radar_snapshot = latest_radar.get(tank_id): those that are there, in the
\* order register_subscriber sends them.
Snapshots(l, k) ==
    (IF k \in DOMAIN l["status"]
     THEN <<[stream |-> "status", id |-> l["status"][k]]>> ELSE <<>>)
    \o (IF k \in DOMAIN l["radar"]
        THEN <<[stream |-> "radar", id |-> l["radar"][k]]>> ELSE <<>>)

\* The body of the lock in register_subscriber, and what follows it.
subscribe_locked(o, s) ==
    LET sn == Snapshots(s.latest, s.key)
    IN [s EXCEPT !.subscribers = SubAdd(s.subscribers, s.key, o),
                 !.snaps = sn,
                 !.pc = IF sn = <<>> THEN "open" ELSE "snap_send"]

\* unregister_subscriber(tank_id, websocket) from its lock on; the caller goes
\* on at nextpc.
unsubscribe_locked(s, o, nextpc) ==
    [s EXCEPT !.subscribers = SubDiscard(s.subscribers, s.key, o), !.pc = nextpc]

\* async with subscriber_lock: sockets = list(subscribers.get(tank_id, []))
\* if not sockets: return
broadcast_locked(s) ==
    LET ss == SubGet(s.subscribers, s.key)
    IN [s EXCEPT !.sockets = ss, !.targets = ss, !.handled = NoHandled,
                 !.pc = IF ss = {} THEN "applied" ELSE "bcast"]

\* The loop of broadcast_status is done with ws: how records what it did.
loop_next(s, how) ==
    LET rest == s.sockets \ {s.ws}
    IN [s EXCEPT !.sockets = rest, !.handled[s.ws] = how,
                 !.pc = IF rest = {} THEN "applied" ELSE "bcast"]

\* Mutant of SafeSendRaises: the exception of send_text leaves safe_send.
SafeSendRaises_Through(ok) == ~ok

\* safe_send: try: await websocket.send_text(...) except Exception: pass
SafeSendRaises(ok) == FALSE

\* One send_text on the UI WebSocket o: the call is recorded; a send that
\* failed may have set the socket's application_state to DISCONNECTED.
SendText(s, o, m, by, ok, drop) ==
    [s EXCEPT !.got[o] = @ \cup {[stream |-> m.stream, id |-> m.id, by |-> by]},
              !.uiState[o] = IF ~ok /\ drop THEN "disconnected" ELSE @]

\* Mutant of CachePut: a cached value is kept, not replaced.
CachePut_KeepFirst(l, c, k, m) ==
    IF k \in DOMAIN l[c] THEN l
    ELSE [l EXCEPT ![c] = [kk \in (DOMAIN l[c]) \cup {k} |->
                              IF kk = k THEN m ELSE l[c][kk]]]

\* latest_status[tank_id] = message  /  latest_radar[source_id] = message
CachePut(l, c, k, m) ==
    [l EXCEPT ![c] = [kk \in (DOMAIN l[c]) \cup {k} |->
                         IF kk = k THEN m ELSE l[c][kk]]]

\* ------------------------------------------------------------------ actions
\* ===================================================================
\* tank_channel: what it makes of an inbound frame (control_broker/app.py).
\* A frame is a text, here a sequence of tokens: braces, a number, and
\* "key:value" members of an object.
\* ===================================================================
Tokens == {"{", "}", "7", "a:1", "type:status"}
MemberTokens == {"a:1", "type:status"}
ScalarTokens == {"7"}
Frames == UNION {[1..n -> Tokens] : n \in 0..MaxFrameLen}

KeyOf(tok) == IF tok = "a:1" THEN "a" ELSE "type"
ValueOf(tok) == IF tok = "a:1" THEN "1" ELSE "status"

EmptyObject == [k \in {} |-> ""]

\* The dict of the members of an object text; of two members with the same
\* key the later one stays.
RECURSIVE ObjectOf(_)
ObjectOf(members) ==
    IF members = <<>> THEN EmptyObject
    ELSE LET n == Len(members)
             rest == ObjectOf(SubSeq(members, 1, n - 1))
             k == KeyOf(members[n])
         IN [x \in DOMAIN rest \cup {k} |->
                IF x = k THEN ValueOf(members[n]) ELSE rest[x]]

\* json.loads(message): a dict for an object text, another value for a
\* scalar text, JSONDecodeError for everything else (the empty text too).
json_loads(text) ==
    LET n == Len(text)
    IN IF n = 1 /\ text[1] \in ScalarTokens
       THEN [kind |-> "scalar", obj |-> EmptyObject]
       ELSE IF /\ n >= 2 /\ text[1] = "{" /\ text[n] = "}"
               /\ \A i \in 2..(n - 1) : text[i] \in MemberTokens
            THEN [kind |-> "object", obj |-> ObjectOf(SubSeq(text, 2, n - 1))]
            ELSE [kind |-> "error", obj |-> EmptyObject]

\* Mutant of setdefault: the key is set whether it is there or not.
setdefault_Overwrite(obj, k, v) ==
    [x \in DOMAIN obj \cup {k} |-> IF x = k THEN v ELSE obj[x]]

\* payload.setdefault(k, v)
setdefault(obj, k, v) ==
    IF k \in DOMAIN obj THEN obj
    ELSE [x \in DOMAIN obj \cup {k} |-> IF x = k THEN v ELSE obj[x]]

\* except json.JSONDecodeError: payload = {"type": "telemetry", "raw": message}
RawTelemetry(text) ==
    [x \in {"type", "raw"} |-> IF x = "type" THEN "telemetry" ELSE text]

\* try: payload = json.loads(message) ... ; if isinstance(payload, dict):
\* payload.setdefault("type", "telemetry")
ParsePayload(text) ==
    LET r == json_loads(text)
    IN CASE r.kind = "error" ->
              [dict |-> TRUE,
               obj |-> setdefault(RawTelemetry(text), "type", "telemetry")]
         [] r.kind = "object" ->
              [dict |-> TRUE, obj |-> setdefault(r.obj, "type", "telemetry")]
         [] OTHER -> [dict |-> FALSE, obj |-> EmptyObject]

NoPayload == [dict |-> FALSE, obj |-> EmptyObject]
NotGiven == [called |-> FALSE, present |-> FALSE, obj |-> EmptyObject]

FrameInit ==
    /\ fpc = "receive"
    /\ message = <<>>
    /\ fpayload = NoPayload
    /\ given = NotGiven
    /\ stored = "no"

Init ==
    /\ now = 0
    /\ tanks = EmptyTanks
    /\ lock = NoTask
    /\ sockState = [w \in Connections |-> "new"]
    /\ closeCode = [w \in Connections |-> 0]
    /\ pc = [t \in Tasks |-> "idle"]
    /\ op = [t \in Tasks |-> NoOp]
    /\ t_now = [t \in Tasks |-> 0]
    /\ to_close = [t \in Tasks |-> {}]
    /\ websocket = [t \in Tasks |-> None]
    /\ result = [t \in Tasks |-> None]
    /\ pre = [t \in Tasks |-> NoPre]
    /\ snap = [t \in Tasks |-> NoSnap]
    /\ close_error = [t \in Tasks |-> FALSE]
    /\ first_frame = [w \in Connections |-> None]
    /\ reported = [id \in TankIds |-> 0]
    /\ conn_lost = FALSE
    /\ cancelled_in = None
    /\ shutdown = "running"
    /\ FrameInit
    /\ cmdlog = <<>>
    /\ present = {}
    /\ last_id = 0
    /\ batch = <<>>
    /\ message_id = 0
    /\ applied = [e \in 1..MaxEntries |-> "unread"]
    /\ xdels = [e \in 1..MaxEntries |-> 0]
    /\ VisualInit

\* Task t begins the coroutine o and runs it to its first suspension.
Begin(t, o, s) ==
    /\ op' = [op EXCEPT ![t] = o]
    /\ Commit(t, s)

\* A call of the registry from outside the listener; the registry and the
\* clock of this moment are remembered for the observation of the result.
Call(t, o, s) ==
    /\ Begin(t, o, s)
    /\ pre' = [pre EXCEPT ![t] = [tanks |-> tanks, now |-> now]]
    /\ UNCHANGED LifeVars
    /\ UNCHANGED ListenerVars
    /\ UNCHANGED VisualVars

\* Task t, suspended in a call, runs on to its next suspension.
Resume(t, s) ==
    /\ Commit(t, s)
    /\ UNCHANGED <<op, pre>>
    /\ UNCHANGED LifeVars
    /\ UNCHANGED ListenerVars
    /\ UNCHANGED VisualVars

\* The clock advances; a finished call is observed at the instant it returns.
Tick ==
    /\ now < MaxTime
    /\ \A t \in Tasks : pc[t] # "done"
    /\ now' = now + 1
    /\ UNCHANGED <<tanks, lock, sockState, closeCode, pc, op, t_now, to_close,
                   websocket, result, pre, snap, close_error, first_frame,
                   LifeVars>>
    /\ UNCHANGED ListenerVars
    /\ UNCHANGED VisualVars

\* A WebSocket object is referenced by the registry or by a running call.
InUse(w) ==
    \/ \E id \in DOMAIN tanks : tanks[id].websocket = w
    \/ \E t \in Tasks : w \in to_close[t] \/ websocket[t] = w \/ op[t].websocket = w

RegisterOp(tank_id, ws) ==
    [name |-> "register_tank", tank_id |-> tank_id, websocket |-> ws,
     payload |-> None]
UnregisterOp(tank_id) ==
    [name |-> "unregister_tank", tank_id |-> tank_id, websocket |-> None,
     payload |-> None]
ForwardOp(tank_id, payload) ==
    [name |-> "forward_to_tank", tank_id |-> tank_id, websocket |-> None,
     payload |-> payload]
SnapshotOp ==
    [name |-> "snapshot", tank_id |-> None, websocket |-> None, payload |-> None]
UpdateOp(tank_id, payload) ==
    [name |-> "update_last_seen", tank_id |-> tank_id, websocket |-> None,
     payload |-> payload]
ResetOp(tank_id) ==
    [name |-> "force_reset", tank_id |-> tank_id, websocket |-> None,
     payload |-> None]
PruneOp ==
    [name |-> "_prune_stale", tank_id |-> None, websocket |-> None,
     payload |-> None]

\* tank_channel hands register_tank the WebSocket the server created for the
\* incoming connection.
register_tank(t, tank_id, ws) ==
    /\ pc[t] = "idle"
    /\ sockState[ws] = "new"
    /\ ~InUse(ws)
    /\ Call(t, RegisterOp(tank_id, ws),
            prune_stale(t, RegisterOp(tank_id, ws), Cur(t)))

unregister_tank(t, tank_id) ==
    /\ pc[t] = "idle"
    /\ Call(t, UnregisterOp(tank_id), prune_stale(t, UnregisterOp(tank_id), Cur(t)))

\* The counter is capped: no further forward to a record that reached the cap.
forward_to_tank(t, tank_id, payload) ==
    /\ pc[t] = "idle"
    /\ tank_id \in DOMAIN tanks => tanks[tank_id].commands_sent < MaxCommands
    /\ Call(t, ForwardOp(tank_id, payload),
            prune_stale(t, ForwardOp(tank_id, payload), Cur(t)))

snapshot(t) ==
    /\ pc[t] = "idle"
    /\ Call(t, SnapshotOp, prune_stale(t, SnapshotOp, Cur(t)))

update_last_seen(t, tank_id, payload) ==
    /\ pc[t] = "idle"
    /\ Call(t, UpdateOp(tank_id, payload),
            WithLock(Cur(t), update_locked(UpdateOp(tank_id, payload), Cur(t)),
                     "update_wait"))

force_reset(t, tank_id) ==
    /\ pc[t] = "idle"
    /\ Call(t, ResetOp(tank_id),
            WithLock(Cur(t), force_reset_locked(ResetOp(tank_id), Cur(t)),
                     "reset_wait"))

\* with suppress(Exception): await websocket.close(code=1012); return True
\* The close can return only on a socket that is open.
reset_close(t, ok) ==
    /\ pc[t] = "reset_close"
    /\ ok => sockState[websocket[t]] = "open"
    /\ LET s == DoClose(Cur(t), websocket[t], CLOSE_RESET)
       IN Resume(t, Done([s EXCEPT !.close_error = ~ok], "True"))

\* One pass of the loop of _run_auto_prune: the sleep is over.
run_auto_prune(t) ==
    /\ pc[t] = "idle"
    /\ Call(t, PruneOp, prune_stale(t, PruneOp, Cur(t)))

\* A task that was suspended on the held lock gets it.
lock_acquired(t) ==
    /\ lock = NoTask
    /\ pc[t] \in WaitPcs
    /\ LET s == [Cur(t) EXCEPT !.queued = FALSE]
           o == op[t]
       IN Resume(t, CASE pc[t] = "prune_wait" -> prune_from_lock(t, o, s)
                      [] pc[t] = "reg_wait" -> register_locked(t, o, s)
                      [] pc[t] = "unreg_wait" -> unregister_locked(o, s)
                      [] pc[t] = "fwd_wait" -> forward_locked(o, s)
                      [] pc[t] = "snap_wait" -> snapshot_locked(s)
                      [] pc[t] = "update_wait" -> update_locked(o, s)
                      [] pc[t] = "reset_wait" -> force_reset_locked(o, s))

\* for tank_id, websocket in to_close: with suppress(Exception): await close(1011)
prune_close(t) ==
    /\ pc[t] = "prune_close"
    /\ \E w \in to_close[t] :
          LET s1 == DoClose(Cur(t), w, CLOSE_STALE)
              s2 == [s1 EXCEPT !.to_close = @ \ {w}]
          IN Resume(t, IF s2.to_close # {} THEN s2 ELSE after_prune(t, op[t], s2))

\* await websocket.accept()
reg_accept(t, ok) ==
    /\ pc[t] = "reg_accept"
    /\    LET s == Cur(t)
              w == op[t].websocket
          IN Resume(t, IF ok
                       THEN accepted(t, op[t], [s EXCEPT !.sockState[w] = "open"])
                       ELSE Done([s EXCEPT !.sockState[w] = "closed"], "accept_failed"))

\* await websocket.send_text(hello), then async with self._lock
reg_hello(t, ok) ==
    /\ pc[t] = "reg_hello"
    /\    LET s == Cur(t)
              w == op[t].websocket
              s1 == Received(s, w, "hello")
          IN Resume(t, IF ok
                       THEN WithLock(s1, register_locked(t, op[t], s1), "reg_wait")
                       ELSE Done([s EXCEPT !.sockState[w] = "closed"], "send_failed"))

\* await previous.websocket.close(code=1011), inside the lock, not suppressed.
\* It can return only on a socket that is open.
reg_close(t, ok) ==
    /\ pc[t] = "reg_close"
    /\ ok => sockState[tanks[op[t].tank_id].websocket] = "open"
    /\    LET s == DoClose(Cur(t), tanks[op[t].tank_id].websocket, CLOSE_STALE)
          IN Resume(t, IF ok
                       THEN register_install(op[t], s)
                       ELSE Done([s EXCEPT !.lock = NoTask], "close_failed"))

\* await websocket.send_text(json.dumps(payload)).  It can return only on a
\* socket that is open.
fwd_send(t, ok) ==
    /\ pc[t] = "fwd_send"
    /\ ok => sockState[websocket[t]] = "open"
    /\    LET s == Cur(t)
          IN Resume(t, IF ok THEN Done(Received(s, s.websocket, "command"), "ok")
                       ELSE Done([s EXCEPT !.sockState[s.websocket] = "closed"],
                                 "send_failed"))

\* The caller has the result and the task is free for the next call.  A
\* WebSocket that neither the registry nor a running call refers to any more is
\* gone; the server hands the next connection a new one.
Released(t, w) ==
    /\ \A id \in DOMAIN tanks : tanks[id].websocket # w
    /\ \A u \in Tasks \ {t} : w \notin to_close[u] /\ websocket[u] # w
                                 /\ op[u].websocket # w

Returned(t) ==
    /\ pc[t] = "done"
    /\ t # Listener
    /\ pc' = [pc EXCEPT ![t] = "idle"]
    /\ op' = [op EXCEPT ![t] = NoOp]
    /\ t_now' = [t_now EXCEPT ![t] = 0]
    /\ to_close' = [to_close EXCEPT ![t] = {}]
    /\ websocket' = [websocket EXCEPT ![t] = None]
    /\ result' = [result EXCEPT ![t] = None]
    /\ pre' = [pre EXCEPT ![t] = NoPre]
    /\ snap' = [snap EXCEPT ![t] = NoSnap]
    /\ close_error' = [close_error EXCEPT ![t] = FALSE]
    /\ sockState' = [w \in Connections |->
                        IF Released(t, w) THEN "new" ELSE sockState[w]]
    /\ closeCode' = [w \in Connections |-> IF Released(t, w) THEN 0 ELSE closeCode[w]]
    /\ first_frame' = [w \in Connections |->
                          IF Released(t, w) THEN None ELSE first_frame[w]]
    /\ UNCHANGED <<now, tanks, lock>>
    /\ UNCHANGED <<conn_lost, cancelled_in, shutdown, FrameVars>>
    /\ UNCHANGED ListenerVars
    /\ UNCHANGED VisualVars

Return(t) == Returned(t) /\ UNCHANGED reported

\* The caller is a monitor polling GET /tanks: of every snapshot it is given
\* it remembers the commandsSent of each device listed.
ReturnNoted(t) ==
    /\ Returned(t)
    /\ reported' = [id \in TankIds |->
                       IF op[t].name = "snapshot" /\ id \in DOMAIN snap[t]
                       THEN snap[t][id].commandsSent ELSE reported[id]]

\* The registry driven by one caller at a time: every sequence of calls.
Next ==
    \/ Tick
    \/ \E t \in SeqTasks, id \in TankIds, w \in Sockets : register_tank(t, id, w)
    \/ \E t \in SeqTasks, id \in TankIds : unregister_tank(t, id)
    \/ \E t \in SeqTasks, id \in TankIds, c \in Commands : forward_to_tank(t, id, c)
    \/ \E t \in SeqTasks : snapshot(t)
    \/ \E t \in SeqTasks, id \in TankIds, p \in Payloads \cup {None} :
          update_last_seen(t, id, p)
    \/ \E t \in SeqTasks : run_auto_prune(t)
    \/ \E t \in SeqTasks, id \in TankIds : force_reset(t, id)
    \/ \E t \in SeqTasks, ok \in BOOLEAN : reset_close(t, ok)
    \/ \E t \in SeqTasks : prune_close(t)
    \/ \E t \in SeqTasks, ok \in BOOLEAN : reg_accept(t, ok)
    \/ \E t \in SeqTasks, ok \in BOOLEAN : reg_hello(t, ok)
    \/ \E t \in SeqTasks, ok \in BOOLEAN : reg_close(t, ok)
    \/ \E t \in SeqTasks, ok \in BOOLEAN : fwd_send(t, ok)
    \/ \E t \in SeqTasks : Return(t)

Spec == Init /\ [][Next]_vars

\* The same calls for one device, made by a monitor that remembers what the
\* snapshots said.
CounterNext ==
    \/ Tick
    \/ \E t \in SeqTasks, id \in {"T1"}, w \in Sockets : register_tank(t, id, w)
    \/ \E t \in SeqTasks, id \in {"T1"} : unregister_tank(t, id)
    \/ \E t \in SeqTasks, id \in {"T1"}, c \in Commands : forward_to_tank(t, id, c)
    \/ \E t \in SeqTasks : snapshot(t)
    \/ \E t \in SeqTasks, id \in {"T1"}, p \in Payloads \cup {None} :
          update_last_seen(t, id, p)
    \/ \E t \in SeqTasks : run_auto_prune(t)
    \/ \E t \in SeqTasks, id \in {"T1"} : force_reset(t, id)
    \/ \E t \in SeqTasks, ok \in BOOLEAN : reset_close(t, ok)
    \/ \E t \in SeqTasks : prune_close(t)
    \/ \E t \in SeqTasks, ok \in BOOLEAN : reg_accept(t, ok)
    \/ \E t \in SeqTasks, ok \in BOOLEAN : reg_hello(t, ok)
    \/ \E t \in SeqTasks, ok \in BOOLEAN : reg_close(t, ok)
    \/ \E t \in SeqTasks, ok \in BOOLEAN : fwd_send(t, ok)
    \/ \E t \in SeqTasks : ReturnNoted(t)

CounterSpec == Init /\ [][CounterNext]_vars

\* ===================================================================
\* RedisCommandListener: the consumer of the command stream.
\* ===================================================================
Min(a, b) == IF a < b THEN a ELSE b

\* The IDs in ascending order.
RECURSIVE Ascending(_)
Ascending(ids) ==
    IF ids = {} THEN <<>>
    ELSE LET m == CHOOSE x \in ids : \A y \in ids : x <= y
         IN <<m>> \o Ascending(ids \ {m})

\* Mutant of XRead: the cursor is ignored, the stream is read from its start.
XRead_FromStart(pres, last) ==
    LET all == Ascending(pres)
    IN SubSeq(all, 1, Min(Len(all), XREAD_COUNT))

\* xread(streams={stream: last_id}, count=20): the entries of the stream after
\* last_id, in stream order, at most count of them.
XRead(pres, last) ==
    LET all == Ascending({e \in pres : e > last})
    IN SubSeq(all, 1, Min(Len(all), XREAD_COUNT))

\* Where the listener goes on after an entry: the next message of the batch
\* or, the batch done, the next xread.
AfterMessage(rest) == IF rest # <<>> THEN "process" ELSE "xread"

\* An entry is appended to the command stream (by the visual controller).
\* valid: whether StreamCommand(**data) accepts it.
XAdd(tank_id, valid) ==
    /\ Len(cmdlog) < MaxEntries
    /\ cmdlog' = Append(cmdlog, [tankId |-> tank_id, valid |-> valid])
    /\ present' = present \cup {Len(cmdlog) + 1}
    /\ UNCHANGED <<last_id, batch, message_id, applied, xdels>>
    /\ UNCHANGED VisualVars
    /\ UNCHANGED <<now, tanks, lock, sockState, closeCode, pc, op, t_now, to_close,
                   websocket, result, pre, snap, close_error, first_frame,
                   LifeVars>>

\* start(): last_id = the configured start, then the first xread.
listener_start(t) ==
    /\ t = Listener
    /\ pc[t] = "idle"
    /\ pc' = [pc EXCEPT ![t] = "xread"]
    /\ UNCHANGED VisualVars
    /\ UNCHANGED <<now, tanks, lock, sockState, closeCode, op, t_now, to_close,
                   websocket, result, pre, snap, close_error, first_frame,
                   LifeVars>>
    /\ UNCHANGED ListenerVars

\* results = await self.redis_client.xread(...): it returns, or raises an
\* exception that is no ConnectionError and the loop sleeps a second.  With
\* nothing to read the loop reads again.
xread_done(t, ok) ==
    /\ t = Listener
    /\ pc[t] = "xread"
    /\ LET results == XRead(present, last_id)
       IN /\ pc' = [pc EXCEPT ![t] = IF ~ok THEN "sleep"
                                      ELSE IF results = <<>> THEN "xread"
                                      ELSE "process"]
          /\ batch' = IF ok THEN results ELSE batch
    /\ conn_lost' = IF ok THEN FALSE ELSE conn_lost
    /\ UNCHANGED <<cmdlog, present, last_id, message_id, applied, xdels>>
    /\ UNCHANGED VisualVars
    /\ UNCHANGED <<now, tanks, lock, sockState, closeCode, op, t_now, to_close,
                   websocket, result, pre, snap, close_error, first_frame,
                   reported, cancelled_in, shutdown, FrameVars>>

\* await asyncio.sleep(1.0) after an error of the loop
sleep_done(t) ==
    /\ t = Listener
    /\ pc[t] = "sleep"
    /\ pc' = [pc EXCEPT ![t] = "xread"]
    /\ UNCHANGED VisualVars
    /\ UNCHANGED <<now, tanks, lock, sockState, closeCode, op, t_now, to_close,
                   websocket, result, pre, snap, close_error, first_frame,
                   LifeVars>>
    /\ UNCHANGED ListenerVars

\* last_id = message_id; _process_message: an entry that fails validation is
\* logged and left; otherwise forward_to_tank is called.
process_message(t) ==
    /\ t = Listener
    /\ pc[t] = "process"
    /\ LET m == Head(batch)
           rest == Tail(batch)
           o == ForwardOp(cmdlog[m].tankId, "stop")
       IN /\ last_id' = m
          /\ batch' = rest
          /\ message_id' = m
          /\ IF cmdlog[m].valid
             THEN /\ Begin(t, o, prune_stale(t, o, Cur(t)))
                  /\ UNCHANGED <<applied, pre>>
             ELSE /\ applied' = [applied EXCEPT ![m] = "invalid"]
                  /\ pc' = [pc EXCEPT ![t] = AfterMessage(rest)]
                  /\ UNCHANGED <<now, tanks, lock, sockState, closeCode, op, t_now,
                                 to_close, websocket, result, pre, snap, close_error,
                                 first_frame>>
    /\ UNCHANGED LifeVars
    /\ UNCHANGED <<cmdlog, present, xdels>>
    /\ UNCHANGED VisualVars

\* Mutant of Delivered: the entry is deleted however the forward ended.
Delivered_Always(res) == TRUE

\* delivered = True is reached only when forward_to_tank returned.
Delivered(res) == res = "ok"

\* forward_to_tank has returned or raised: if delivered, xdel is called.
process_result(t) ==
    /\ t = Listener
    /\ pc[t] = "done"
    /\ applied' = [applied EXCEPT ![message_id] = result[t]]
    /\ pc' = [pc EXCEPT ![t] = IF Delivered(result[t]) THEN "xdel"
                                 ELSE AfterMessage(batch)]
    /\ op' = [op EXCEPT ![t] = NoOp]
    /\ t_now' = [t_now EXCEPT ![t] = 0]
    /\ to_close' = [to_close EXCEPT ![t] = {}]
    /\ websocket' = [websocket EXCEPT ![t] = None]
    /\ result' = [result EXCEPT ![t] = None]
    /\ UNCHANGED <<now, tanks, lock, sockState, closeCode, snap, pre, close_error,
                   first_frame, LifeVars>>
    /\ UNCHANGED <<cmdlog, present, last_id, batch, message_id, xdels>>
    /\ UNCHANGED VisualVars

\* await self.redis_client.xdel(stream, message_id): it returns, or raises and
\* the error is logged.
xdel_done(t, ok) ==
    /\ t = Listener
    /\ pc[t] = "xdel"
    /\ present' = IF ok THEN present \ {message_id} ELSE present
    /\ xdels' = IF ok THEN [xdels EXCEPT ![message_id] = @ + 1] ELSE xdels
    /\ pc' = [pc EXCEPT ![t] = AfterMessage(batch)]
    /\ UNCHANGED <<cmdlog, last_id, batch, message_id, applied>>
    /\ UNCHANGED VisualVars
    /\ UNCHANGED <<now, tanks, lock, sockState, closeCode, op, t_now, to_close,
                   websocket, result, pre, snap, close_error, first_frame,
                   LifeVars>>

\* The listener beside one tank_channel at a time registering and unregistering
\* devices; every socket and Redis operation may fail.
ListenerNext ==
    \/ \E id \in TankIds, v \in BOOLEAN : XAdd(id, v)
    \/ \E t \in SeqTasks, id \in TankIds, w \in Sockets : register_tank(t, id, w)
    \/ \E t \in SeqTasks, id \in TankIds : unregister_tank(t, id)
    \/ \E t \in SeqTasks, ok \in BOOLEAN : reg_accept(t, ok)
    \/ \E t \in SeqTasks, ok \in BOOLEAN : reg_hello(t, ok)
    \/ \E t \in SeqTasks, ok \in BOOLEAN : reg_close(t, ok)
    \/ \E t \in SeqTasks : Return(t)
    \/ listener_start(Listener)
    \/ \E ok \in BOOLEAN : xread_done(Listener, ok)
    \/ sleep_done(Listener)
    \/ process_message(Listener)
    \/ lock_acquired(Listener)
    \/ \E ok \in BOOLEAN : fwd_send(Listener, ok)
    \/ process_result(Listener)
    \/ \E ok \in BOOLEAN : xdel_done(Listener, ok)

ListenerSpec == Init /\ [][ListenerNext]_vars

\* The same with no operation failing, and with the event loop running every
\* task that can run: the listener's steps and the steps that finish a call
\* under way are taken when they stay possible.
ListenerStep ==
    \/ listener_start(Listener)
    \/ xread_done(Listener, TRUE)
    \/ process_message(Listener)
    \/ lock_acquired(Listener)
    \/ fwd_send(Listener, TRUE)
    \/ process_result(Listener)
    \/ xdel_done(Listener, TRUE)

HandlerStep ==
    \E t \in SeqTasks :
        reg_accept(t, TRUE) \/ reg_hello(t, TRUE) \/ reg_close(t, TRUE) \/ Return(t)

FairListenerNext ==
    \/ \E id \in TankIds, v \in BOOLEAN : XAdd(id, v)
    \/ \E t \in SeqTasks, id \in TankIds, w \in Sockets : register_tank(t, id, w)
    \/ \E t \in SeqTasks, id \in TankIds : unregister_tank(t, id)
    \/ HandlerStep
    \/ ListenerStep

FairListenerSpec ==
    /\ Init
    /\ [][FairListenerNext]_vars
    /\ WF_vars(ListenerStep)
    /\ WF_vars(HandlerStep)

\* The registry as on_startup leaves it: manager.start() is not called, so no
\* task runs _run_auto_prune; _prune_stale runs only inside the calls of the
\* handlers.  The clock goes on and a call under way is run to its end.
StartedCall ==
    \/ \E t \in SeqTasks, w \in Sockets : register_tank(t, "T1", w)
    \/ \E t \in SeqTasks : unregister_tank(t, "T1")
    \/ \E t \in SeqTasks, c \in Commands : forward_to_tank(t, "T1", c)
    \/ \E t \in SeqTasks : snapshot(t)
    \/ \E t \in SeqTasks, p \in Payloads \cup {None} : update_last_seen(t, "T1", p)
    \/ \E t \in SeqTasks : force_reset(t, "T1")

StartedStep ==
    \/ \E t \in SeqTasks, ok \in BOOLEAN : reset_close(t, ok)
    \/ \E t \in SeqTasks : prune_close(t)
    \/ \E t \in SeqTasks, ok \in BOOLEAN : reg_accept(t, ok)
    \/ \E t \in SeqTasks, ok \in BOOLEAN : reg_hello(t, ok)
    \/ \E t \in SeqTasks, ok \in BOOLEAN : reg_close(t, ok)
    \/ \E t \in SeqTasks, ok \in BOOLEAN : fwd_send(t, ok)
    \/ \E t \in SeqTasks : Return(t)

StartedNext ==
    \/ Tick
    \/ StartedCall
    \/ StartedStep

StartedSpec ==
    /\ Init
    /\ [][StartedNext]_vars
    /\ WF_vars(Tick)
    /\ WF_vars(StartedStep)

\* Two connections of the same device arrive at about the same time: each
\* tank_channel handler calls register_tank with the WebSocket of its own
\* connection.  Every socket operation may fail; no record gets stale
\* meanwhile.
RaceNext ==
    \/ \E t \in HandlerTasks, w \in Connections : register_tank(t, "T1", w)
    \/ \E t \in HandlerTasks : lock_acquired(t)
    \/ \E t \in HandlerTasks, ok \in BOOLEAN : reg_accept(t, ok)
    \/ \E t \in HandlerTasks, ok \in BOOLEAN : reg_hello(t, ok)
    \/ \E t \in HandlerTasks, ok \in BOOLEAN : reg_close(t, ok)
    \/ \E t \in HandlerTasks : Return(t)

\* What the event loop runs of a call under way.  asyncio.Lock wakes its
\* waiters in the order they came, so a waiter is not passed over for ever.
RaceStep(t) ==
    \/ \E ok \in BOOLEAN : reg_accept(t, ok)
    \/ \E ok \in BOOLEAN : reg_hello(t, ok)
    \/ \E ok \in BOOLEAN : reg_close(t, ok)
    \/ Return(t)

RaceSpec ==
    /\ Init
    /\ [][RaceNext]_vars
    /\ \A t \in HandlerTasks : WF_vars(RaceStep(t)) /\ SF_vars(lock_acquired(t))

\* The registry, the listener and the visual controller are not touched.
FrameRest ==
    /\ UNCHANGED <<now, tanks, lock, sockState, closeCode, pc, op, t_now, to_close,
                   websocket, result, pre, snap, close_error, first_frame,
                   reported, conn_lost, cancelled_in, shutdown>>
    /\ UNCHANGED ListenerVars
    /\ UNCHANGED VisualVars

\* message = await websocket.receive_text() returned text, and the frame is
\* parsed.
frame_received(text) ==
    /\ fpc = "receive"
    /\ message' = text
    /\ fpayload' = ParsePayload(text)
    /\ fpc' = "update"
    /\ UNCHANGED <<given, stored>>
    /\ FrameRest

\* await manager.update_last_seen(tank_id, payload if isinstance(payload,
\* dict) else None)
frame_update ==
    /\ fpc = "update"
    /\ given' = [called |-> TRUE, present |-> fpayload.dict,
                 obj |-> IF fpayload.dict THEN fpayload.obj ELSE EmptyObject]
    /\ fpc' = IF fpayload.dict THEN "store" ELSE "handled"
    /\ UNCHANGED <<message, fpayload, stored>>
    /\ FrameRest

\* if isinstance(payload, dict): xadd to the status stream; an error of Redis
\* is logged.
frame_store(ok) ==
    /\ fpc = "store"
    /\ stored' = IF ok THEN "appended" ELSE "failed"
    /\ fpc' = "handled"
    /\ UNCHANGED <<message, fpayload, given>>
    /\ FrameRest

\* The loop goes to its next receive_text.
frame_next ==
    /\ fpc = "handled"
    /\ fpc' = "receive"
    /\ message' = <<>>
    /\ fpayload' = NoPayload
    /\ given' = NotGiven
    /\ stored' = "no"
    /\ FrameRest

FrameNext ==
    \/ \E text \in Frames : frame_received(text)
    \/ frame_update
    \/ \E ok \in BOOLEAN : frame_store(ok)
    \/ frame_next

FrameSpec == Init /\ [][FrameNext]_vars

\* ===================================================================
\* The life of the broker process (control_broker/app.py): the listener
\* task beside the handlers of one device, and on_shutdown.
\* ===================================================================
\* results = await self.redis_client.xread(...) raises redis ConnectionError:
\* `except Exception` logs it and the loop sleeps a second.
xread_conn(t) ==
    /\ t = Listener
    /\ pc[t] = "xread"
    /\ pc' = [pc EXCEPT ![t] = "sleep"]
    /\ conn_lost' = TRUE
    /\ UNCHANGED ListenerVars
    /\ UNCHANGED VisualVars
    /\ UNCHANGED <<now, tanks, lock, sockState, closeCode, op, t_now, to_close,
                   websocket, result, pre, snap, close_error, first_frame,
                   reported, cancelled_in, shutdown, FrameVars>>

\* The awaits at which the listener task can be suspended: CancelledError is
\* raised at the one it is in.
CancelPcs == {"idle", "xread", "sleep", "prune_wait", "prune_close", "fwd_wait",
              "fwd_send", "xdel"}

\* on_shutdown: listener.cancel() and `await listener` under
\* suppress(CancelledError).  CancelledError is no Exception: inside
\* _process_message neither `except Exception` catches it, and start() leaves
\* its loop.  reached: whether the interrupted send or xdel had already
\* reached its peer.
shutdown_cancel(reached) ==
    /\ shutdown = "running"
    /\ pc[Listener] \in CancelPcs
    /\ reached => pc[Listener] \in {"fwd_send", "xdel"}
    /\ shutdown' = "cancelled"
    /\ cancelled_in' = pc[Listener]
    /\ pc' = [pc EXCEPT ![Listener] = "cancelled"]
    /\ present' = IF pc[Listener] = "xdel" /\ reached
                  THEN present \ {message_id} ELSE present
    /\ first_frame' = IF pc[Listener] = "fwd_send" /\ reached
                      THEN Received(Cur(Listener), websocket[Listener],
                                    "command").first_frame
                      ELSE first_frame
    /\ op' = [op EXCEPT ![Listener] = NoOp]
    /\ t_now' = [t_now EXCEPT ![Listener] = 0]
    /\ to_close' = [to_close EXCEPT ![Listener] = {}]
    /\ websocket' = [websocket EXCEPT ![Listener] = None]
    /\ result' = [result EXCEPT ![Listener] = None]
    /\ UNCHANGED <<cmdlog, last_id, batch, message_id, applied, xdels>>
    /\ UNCHANGED VisualVars
    /\ UNCHANGED <<now, tanks, lock, sockState, closeCode, pre, snap, close_error,
                   reported, conn_lost, FrameVars>>

\* on_shutdown, the rest: `if redis_client: await redis_client.close()` and
\* app.state.redis = None; a close that raises leaves on_shutdown before the
\* assignment.  Nothing else is done: the manager is not called.
shutdown_close(ok) ==
    /\ shutdown = "cancelled"
    /\ redis = NoClient => ok
    /\ clientState' = IF redis # NoClient
                      THEN [clientState EXCEPT ![redis] = "closed"]
                      ELSE clientState
    /\ redis' = IF ok THEN NoClient ELSE redis
    /\ shutdown' = IF ok THEN "stopped" ELSE "failed"
    /\ UNCHANGED <<redis_lock, redis_waiters, made, existing, new_client, ctx,
                   last_error, redis_client, attempt, vres, landed>>
    /\ UNCHANGED <<FanoutVars, StreamVars>>
    /\ UNCHANGED ListenerVars
    /\ UNCHANGED <<now, tanks, lock, sockState, closeCode, pc, op, t_now, to_close,
                   websocket, result, pre, snap, close_error, first_frame,
                   reported, conn_lost, cancelled_in, FrameVars>>

ServiceNext ==
    \/ \E v \in BOOLEAN : XAdd("T1", v)
    \/ \E t \in SeqTasks, w \in Sockets : register_tank(t, "T1", w)
    \/ \E t \in SeqTasks : unregister_tank(t, "T1")
    \/ \E t \in SeqTasks, ok \in BOOLEAN : reg_accept(t, ok)
    \/ \E t \in SeqTasks, ok \in BOOLEAN : reg_hello(t, ok)
    \/ \E t \in SeqTasks, ok \in BOOLEAN : reg_close(t, ok)
    \/ \E t \in SeqTasks : Return(t)
    \/ listener_start(Listener)
    \/ \E ok \in BOOLEAN : xread_done(Listener, ok)
    \/ xread_conn(Listener)
    \/ sleep_done(Listener)
    \/ process_message(Listener)
    \/ lock_acquired(Listener)
    \/ \E ok \in BOOLEAN : fwd_send(Listener, ok)
    \/ process_result(Listener)
    \/ \E ok \in BOOLEAN : xdel_done(Listener, ok)
    \/ \E reached \in BOOLEAN : shutdown_cancel(reached)
    \/ \E ok \in BOOLEAN : shutdown_close(ok)

ServiceSpec == Init /\ [][ServiceNext]_vars

\* ===================================================================
\* The visual controller: ui_socket handlers and the stream listeners.
\* The boundary between two messages of a batch and between two rounds of
\* the loop of broadcast_status is treated as a point where other tasks may
\* run: this adds interleavings and removes none.
\* ===================================================================
\* A task of the visual controller runs on to its next suspension.
VResume(t, s) ==
    /\ VCommit(t, s)
    /\ UNCHANGED joined
    /\ UNCHANGED StreamVars
    /\ UNCHANGED BrokerVars
    /\ UNCHANGED ClientVars

\* ui_socket(websocket, tank_id) is called for an incoming UI connection and
\* calls register_subscriber, which awaits websocket.accept().
ui_socket(o, k) ==
    /\ vpc[o] = "idle"
    /\ VCommit(o, [VCur(o) EXCEPT !.key = k, !.pc = "accept"])
    /\ joined' = [joined EXCEPT ![o] = [latest |-> latest,
                                        subscribers |-> subscribers]]
    /\ UNCHANGED StreamVars
    /\ UNCHANGED BrokerVars
    /\ UNCHANGED ClientVars

\* await websocket.accept() is over.  If it returned, register_subscriber goes
\* on to its lock; if it raised, ui_socket calls unregister_subscriber.
register_accepted(o, ok) ==
    /\ vpc[o] = "accept"
    /\ LET s == VCur(o)
           s1 == [s EXCEPT !.uiState[o] = IF ok THEN "connected" ELSE "disconnected"]
       IN VResume(o, IF ok THEN subscribe_locked(o, s1)
                     ELSE unsubscribe_locked(s1, o, "closed"))

\* await safe_send(websocket, telemetry_snapshot / radar_snapshot) is over.
snapshot_sent(o, ok, drop) ==
    /\ vpc[o] = "snap_send"
    /\ LET s == SendText(VCur(o), o, Head(snaps[o]), "subscribe", ok, drop)
           rest == Tail(snaps[o])
       IN VResume(o, [s EXCEPT !.snaps = rest,
                               !.pc = IF rest = <<>> THEN "open" ELSE "snap_send"])

\* await websocket.receive_text() raises (the peer is gone, or another error):
\* ui_socket calls unregister_subscriber.
receive_failed(o) ==
    /\ vpc[o] = "open"
    /\ LET s == VCur(o)
       IN VResume(o, unsubscribe_locked(s, o, "closed"))

\* ------------------------------------------- status_listener / radar_listener
\* The entries of stream c after last, at most count of them.
VXRead(pres, last) ==
    LET all == Ascending({e \in pres : e > last})
    IN SubSeq(all, 1, Min(Len(all), VXREAD_COUNT))

\* An entry is appended to stream c (by the broker's tank_channel, or by the
\* radar source); k = None: the entry carries no tankId / sourceId.
StreamAppend(c, k) ==
    /\ Len(vlog[c]) < MaxStream
    /\ vlog' = [vlog EXCEPT ![c] = Append(@, [key |-> k])]
    /\ vpresent' = [vpresent EXCEPT ![c] = @ \cup {Len(vlog[c]) + 1}]
    /\ UNCHANGED <<vlast, vbatch, seen>>
    /\ UNCHANGED FanoutVars
    /\ UNCHANGED BrokerVars
    /\ UNCHANGED ClientVars

\* The store trims the stream (maxlen=..., approximate=True): the oldest
\* entry goes.
StreamTrim(c) ==
    /\ vpresent[c] # {}
    /\ vpresent' = [vpresent EXCEPT ![c] =
                       @ \ {CHOOSE e \in @ : \A f \in @ : e <= f}]
    /\ UNCHANGED <<vlog, vlast, vbatch, seen>>
    /\ UNCHANGED FanoutVars
    /\ UNCHANGED BrokerVars
    /\ UNCHANGED ClientVars

\* The listener of stream c starts: last_id = the configured start.
listener_begin(c) ==
    /\ vpc[c] = "idle"
    /\ vpc' = [vpc EXCEPT ![c] = "xread"]
    /\ UNCHANGED <<subscribers, latest, uiState, key, sockets,
                   cur_ws, snaps, msg, got, targets, handled, joined>>
    /\ UNCHANGED StreamVars
    /\ UNCHANGED BrokerVars
    /\ UNCHANGED ClientVars

\* await asyncio.sleep(...) of an exception handler is over.
listener_slept(c) ==
    /\ vpc[c] = "sleep"
    /\ vpc' = [vpc EXCEPT ![c] = "xread"]
    /\ UNCHANGED <<subscribers, latest, uiState, key, sockets,
                   cur_ws, snaps, msg, got, targets, handled, joined>>
    /\ UNCHANGED StreamVars
    /\ UNCHANGED BrokerVars
    /\ UNCHANGED ClientVars

\* A variant of Retained in which the listener deletes what it applied.
Retained_Deleted(pres, m) == pres \ {m}

\* The entries of the stream after the listener handled entry m:
\* status_listener and radar_listener call no xdel.
Retained(pres, m) == pres

\* Where the listener goes on after a message.
VAfterMessage(rest) == IF rest # <<>> THEN "process" ELSE "xread"

\* The next message of the batch: last_id = message_id; an entry without
\* tankId / sourceId is skipped; otherwise the cache is set and
\* broadcast_status is called.
listener_apply(c) ==
    /\ vpc[c] = "process"
    /\ LET m == Head(vbatch[c])
           rest == Tail(vbatch[c])
           k == vlog[c][m].key
           s == VCur(c)
           s1 == [s EXCEPT !.latest = CachePut(s.latest, c, k, m),
                           !.key = k, !.msg = m]
       IN /\ vlast' = [vlast EXCEPT ![c] = m]
          /\ vbatch' = [vbatch EXCEPT ![c] = rest]
          /\ IF k = None
             THEN /\ VCommit(c, [s EXCEPT !.pc = VAfterMessage(rest)])
                  /\ UNCHANGED seen
             ELSE /\ VCommit(c, broadcast_locked(s1))
                  /\ seen' = [seen EXCEPT ![c] = @ \cup {m}]
    /\ vpresent' = [vpresent EXCEPT ![c] = Retained(@, Head(vbatch[c]))]
    /\ UNCHANGED <<vlog, joined>>
    /\ UNCHANGED BrokerVars
    /\ UNCHANGED ClientVars

\* for ws in sockets: if ws.application_state == WebSocketState.CONNECTED:
\* safe_send is called; else unregister_subscriber is.
broadcast_pick(c) ==
    /\ vpc[c] = "bcast"
    /\ \E w \in sockets[c] :
          LET s == [VCur(c) EXCEPT !.ws = w]
          IN VResume(c, IF uiState[w] = "connected"
                        THEN [s EXCEPT !.pc = "sending"]
                        ELSE loop_next(unsubscribe_locked(s, w, s.pc), "removed"))

\* await safe_send(ws, message) is over.  Were the exception to leave
\* safe_send, it would leave broadcast_status and end the batch in the
\* listener's `except Exception`.
broadcast_sent(c, ok, drop) ==
    /\ vpc[c] = "sending"
    /\ LET s == SendText(VCur(c), cur_ws[c], [stream |-> c, id |-> msg[c]],
                         "broadcast", ok, drop)
       IN IF SafeSendRaises(ok)
          THEN /\ VCommit(c, [s EXCEPT !.pc = "sleep", !.handled[s.ws] = "raised"])
               /\ vbatch' = [vbatch EXCEPT ![c] = <<>>]
          ELSE /\ VCommit(c, loop_next(s, IF ok THEN "sent" ELSE "raised"))
               /\ UNCHANGED vbatch
    /\ UNCHANGED <<vlog, vpresent, vlast, seen, joined>>
    /\ UNCHANGED BrokerVars
    /\ UNCHANGED ClientVars

\* broadcast_status has returned: the loop of the listener goes on.
listener_next(c) ==
    /\ vpc[c] = "applied"
    /\ VResume(c, [VCur(c) EXCEPT !.pc = VAfterMessage(vbatch[c]),
                                  !.key = None, !.msg = 0, !.ws = None,
                                  !.targets = {}, !.handled = NoHandled])


(***************************************************************************)
(* The Redis client of the visual controller: _create_redis_client,        *)
(* reset_redis_client and get_redis_client.  redis_client_lock is held     *)
(* across awaits (close, ping), so a second reset waits; asyncio.Lock      *)
(* serves its waiters first come first.  Every stretch maps a record of    *)
(* the client state and the task's locals to the record after it.          *)
(***************************************************************************)
\* What a call of the Redis library raises: ConnectionError, or another
\* RedisError (TimeoutError, ResponseError, ...).
ErrorKinds == {"conn", "store"}
RCur(t) ==
    [redis |-> redis, lock |-> redis_lock, waiters |-> redis_waiters,
     clientState |-> clientState, made |-> made, pc |-> vpc[t],
     existing |-> existing[t], new_client |-> new_client[t], ctx |-> ctx[t],
     last_error |-> last_error[t], redis_client |-> redis_client[t],
     attempt |-> attempt[t], res |-> vres[t]]

RCommit(t, s) ==
    /\ redis' = s.redis
    /\ redis_lock' = s.lock
    /\ redis_waiters' = s.waiters
    /\ clientState' = s.clientState
    /\ made' = s.made
    /\ vpc' = [vpc EXCEPT ![t] = s.pc]
    /\ existing' = [existing EXCEPT ![t] = s.existing]
    /\ new_client' = [new_client EXCEPT ![t] = s.new_client]
    /\ ctx' = [ctx EXCEPT ![t] = s.ctx]
    /\ last_error' = [last_error EXCEPT ![t] = s.last_error]
    /\ redis_client' = [redis_client EXCEPT ![t] = s.redis_client]
    /\ attempt' = [attempt EXCEPT ![t] = s.attempt]
    /\ vres' = [vres EXCEPT ![t] = s.res]

\* What the fan-out keeps while a task works on the client.
FanoutRest == <<subscribers, latest, uiState, key, sockets, cur_ws, snaps,
                msg, got, targets, handled, joined>>

\* client = redis.from_url(...); await client.ping()
create_client(s) ==
    LET c == s.made + 1
    IN [s EXCEPT !.made = c,
                 !.clientState = [@ EXCEPT ![c] = "open"],
                 !.new_client = c,
                 !.pc = "r_ping"]

\* A variant of reset_locked that leaves the previous client current while
\* it is closed and replaced.
reset_locked_KeepCurrent(t, s) ==
    LET s1 == [s EXCEPT !.lock = t, !.existing = s.redis]
    IN IF s1.existing # NoClient
       THEN [s1 EXCEPT !.pc = "r_close"]
       ELSE create_client(s1)

\* async with redis_client_lock: existing = app.state.redis; if existing is
\* not None: app.state.redis = NoClient; await existing.close()
reset_locked(t, s) ==
    LET s1 == [s EXCEPT !.lock = t, !.existing = s.redis]
    IN IF s1.existing # NoClient
       THEN [s1 EXCEPT !.redis = NoClient, !.pc = "r_close"]
       ELSE create_client(s1)

\* reset_redis_client() is called from `from`: the lock is taken if it is
\* free and nobody waits for it, else the task queues.
reset_redis_client(t, s, from) ==
    LET s1 == [s EXCEPT !.ctx = from]
    IN IF s1.lock = NoTask /\ s1.waiters = <<>>
       THEN reset_locked(t, s1)
       ELSE [s1 EXCEPT !.waiters = Append(@, t), !.pc = "r_wait"]

\* How an exception of kind e that leaves append_command reaches the client
\* of enqueue_command: `except RedisError` answers 503, anything else is an
\* unhandled error of the request.
enqueue_failed(s, e) ==
    [s EXCEPT !.pc = "done",
              !.res = IF e \in ErrorKinds THEN "503" ELSE "500"]

\* redis_client = await get_redis_client() found a client: the xadd / xread
\* that follows is awaited.
got_client(s, nextpc) == [s EXCEPT !.redis_client = s.redis, !.pc = nextpc]

\* reset_redis_client() is left in a listener, which goes on at nextpc: the
\* locals of the call are gone.
left_reset(s, nextpc) ==
    [s EXCEPT !.existing = NoClient, !.new_client = NoClient, !.pc = nextpc]

\* reset_redis_client() is over for task t, with out = "ok" or the kind of
\* the exception it raised: the caller goes on.
after_reset(t, s, out) ==
    CASE s.ctx = "append_get" ->
            \* get_redis_client() is outside the try of append_command
            IF out = "ok" THEN got_client(s, "xadd") ELSE enqueue_failed(s, out)
      [] s.ctx = "append_except" ->
            \* except ConnectionError: await reset_redis_client(); the loop
            \* goes to its next attempt, or is over and last_error is raised
            IF out # "ok" THEN enqueue_failed(s, out)
            ELSE IF s.attempt + 1 < 2
                 THEN got_client([s EXCEPT !.attempt = @ + 1], "xadd")
                 ELSE enqueue_failed(s, s.last_error)
      [] s.ctx = "listener_get" ->
            \* get_redis_client() is inside the try of the listener
            IF out = "ok" THEN left_reset(s, "xread")
            ELSE IF out = "conn"
                 THEN reset_redis_client(t, left_reset(s, "xread"),
                                         "listener_except")
                 ELSE left_reset(s, "sleep")
      [] s.ctx = "listener_except" ->
            \* except ConnectionError: await reset_redis_client() is outside
            \* every try: what it raises ends the task
            IF out = "ok" THEN left_reset(s, "sleep")
            ELSE [left_reset(s, "crashed") EXCEPT !.res = out]

\* An exception of kind e leaves reset_redis_client: the lock is released.
reset_raised(t, s, e) == after_reset(t, [s EXCEPT !.lock = NoTask], e)

\* app.state.redis = new_client; return new_client: the lock is released.
reset_returned(t, s) ==
    after_reset(t, [s EXCEPT !.redis = s.new_client, !.lock = NoTask], "ok")

ResetPcs == {"r_wait", "r_close", "r_ping", "r_pclose"}

\* Task t is woken with redis_client_lock.
redis_lock_acquired(t) ==
    /\ vpc[t] = "r_wait"
    /\ redis_lock = NoTask
    /\ Head(redis_waiters) = t
    /\ made < MaxClients
    /\ RCommit(t, reset_locked(t, [RCur(t) EXCEPT !.waiters = Tail(@)]))
    /\ UNCHANGED <<FanoutRest, StreamVars, landed>>
    /\ UNCHANGED BrokerVars

\* await existing.close() is over: it returned, or raised (a timeout of the
\* disconnect).
reset_closed(t, ok) ==
    /\ vpc[t] = "r_close"
    /\ made < MaxClients
    /\ LET s == [RCur(t) EXCEPT !.clientState[existing[t]] = "closed"]
       IN RCommit(t, IF ok THEN create_client(s) ELSE reset_raised(t, s, "store"))
    /\ UNCHANGED <<FanoutRest, StreamVars, landed>>
    /\ UNCHANGED BrokerVars

\* await client.ping() is over: the client is published, or
\* `except Exception: await client.close(); raise` begins.
reset_pinged(t, ok) ==
    /\ vpc[t] = "r_ping"
    /\ ok => clientState[new_client[t]] = "open"
    /\ RCommit(t, IF ok THEN reset_returned(t, RCur(t))
                  ELSE [RCur(t) EXCEPT !.pc = "r_pclose"])
    /\ UNCHANGED <<FanoutRest, StreamVars, landed>>
    /\ UNCHANGED BrokerVars

\* await client.close() of the handler is over: `raise` re-raises the
\* ConnectionError of ping, or close raised an error of its own.
reset_unpinged(t, ok) ==
    /\ vpc[t] = "r_pclose"
    /\ ctx[t] = "listener_get" => made < MaxClients
    /\ LET s == [RCur(t) EXCEPT !.clientState[new_client[t]] = "closed"]
       IN RCommit(t, reset_raised(t, s, IF ok THEN "conn" ELSE "store"))
    /\ UNCHANGED <<FanoutRest, StreamVars, landed>>
    /\ UNCHANGED BrokerVars

(***************************************************************************)
(* The listeners and the Redis client.  get_redis_client() and the xread   *)
(* that follows are one step when there is a client (what the other tasks  *)
(* do to the client in between only changes how xread ends, and that is    *)
(* free here, so the local redis_client is not kept); without a client the *)
(* get resets it first.                                                    *)
(***************************************************************************)
\* redis_client = await get_redis_client() finds no client and resets it.
listener_get(c) ==
    /\ vpc[c] = "xread"
    /\ redis = NoClient
    /\ made < MaxClients
    /\ RCommit(c, reset_redis_client(c, RCur(c), "listener_get"))
    /\ UNCHANGED <<FanoutRest, StreamVars, landed>>
    /\ UNCHANGED BrokerVars

\* results = await redis_client.xread(...) is over: it returned (out = "ok"),
\* or raised ConnectionError, whose handler resets the client, or raised
\* something else, whose handler sleeps a second.
listener_xread(c, out) ==
    /\ vpc[c] = "xread"
    /\ redis # NoClient
    /\ LET results == VXRead(vpresent[c], vlast[c])
           s == RCur(c)
       IN /\ RCommit(c, CASE out = "ok" ->
                               [s EXCEPT !.pc = IF results = <<>> THEN "xread"
                                                ELSE "process"]
                          [] out = "conn" ->
                               reset_redis_client(c, s, "listener_except")
                          [] out = "store" -> [s EXCEPT !.pc = "sleep"])
          /\ vbatch' = [vbatch EXCEPT ![c] = IF out = "ok" THEN results ELSE @]
    /\ UNCHANGED <<FanoutRest, landed>>
    /\ UNCHANGED <<vlog, vpresent, vlast, seen>>
    /\ UNCHANGED BrokerVars

\* How the task of listener c ended, if it has.
EndedPcs == {"cancelled", "crashed"}

\* on_shutdown calls task.cancel(): CancelledError is raised where the
\* listener is suspended.  Inside the try it is caught and the loop is left;
\* in a handler it leaves the coroutine.  The task ends either way, and
\* redis_client_lock is released, or the wait for it given up.
listener_cancel(c) ==
    /\ vpc[c] \notin EndedPcs
    /\ LET s == RCur(c)
           IsNot(u) == u # c
       IN RCommit(c, [left_reset(s, "cancelled") EXCEPT
                               !.lock = IF @ = c THEN NoTask ELSE @,
                               !.waiters = SelectSeq(@, IsNot)])
    /\ UNCHANGED <<FanoutRest, StreamVars, landed>>
    /\ UNCHANGED BrokerVars

\* The two listeners read their streams while the store lets them down: reads
\* fail, resets fail, entries are trimmed away, and shutdown cancels the
\* tasks.  Entries come on the status stream only, which keeps the state
\* space small; radar_listener runs the same loop on a stream that stays
\* empty and competes for the client.
ConsumerNext ==
    \/ \E k \in {"T1", None} : StreamAppend("status", k)
    \/ StreamTrim("status")
    \/ \E c \in Streams : listener_begin(c)
    \/ \E c \in Streams : listener_get(c)
    \/ \E c \in Streams, out \in {"ok"} \cup ErrorKinds : listener_xread(c, out)
    \/ \E c \in Streams : listener_slept(c)
    \/ \E c \in Streams : listener_apply(c)
    \/ \E c \in Streams : listener_next(c)
    \/ \E c \in Streams : redis_lock_acquired(c)
    \/ \E c \in Streams, ok \in BOOLEAN : reset_closed(c, ok)
    \/ \E c \in Streams, ok \in BOOLEAN : reset_pinged(c, ok)
    \/ \E c \in Streams, ok \in BOOLEAN : reset_unpinged(c, ok)
    \/ \E c \in Streams : listener_cancel(c)

ConsumerSpec == Init /\ [][ConsumerNext]_vars

\* The fan-out: UI connections come and go while status_listener applies the
\* entries of its stream.
FanoutNext ==
    \/ \E o \in Observers, k \in TankIds : ui_socket(o, k)
    \/ \E o \in Observers, ok \in BOOLEAN : register_accepted(o, ok)
    \/ \E o \in Observers, ok, drop \in BOOLEAN : snapshot_sent(o, ok, drop)
    \/ \E o \in Observers : receive_failed(o)
    \/ \E k \in TankIds \cup {None} : StreamAppend("status", k)
    \/ listener_begin("status")
    \/ listener_xread("status", "ok")
    \/ listener_apply("status")
    \/ broadcast_pick("status")
    \/ \E ok, drop \in BOOLEAN : broadcast_sent("status", ok, drop)
    \/ listener_next("status")

FanoutSpec == Init /\ [][FanoutNext]_vars

(***************************************************************************)
(* enqueue_command and append_command of the visual controller: a request  *)
(* appends one command to the command stream the broker's listener reads.  *)
(* Whether an xadd that raised ConnectionError reached the store is not    *)
(* known to the caller: `land` says whether it did.                        *)
(***************************************************************************)
\* POST /command/{tank_id}: append_command begins: attempt 0, last_error None,
\* redis_client = await get_redis_client(), which resets the client if there
\* is none.
enqueue_command(t, k) ==
    /\ vpc[t] = "idle"
    /\ Len(cmdlog) < MaxEntries
    /\ made < MaxClients
    /\ LET s == [RCur(t) EXCEPT !.attempt = 0, !.last_error = None]
       IN RCommit(t, IF s.redis # NoClient THEN got_client(s, "xadd")
                     ELSE reset_redis_client(t, s, "append_get"))
    /\ key' = [key EXCEPT ![t] = k]
    /\ landed' = [landed EXCEPT ![t] = 0]
    /\ UNCHANGED <<subscribers, latest, uiState, sockets, cur_ws, snaps,
                   msg, got, targets, handled, joined>>
    /\ UNCHANGED StreamVars
    /\ UNCHANGED BrokerVars

\* A variant of xadd_raised that swallows every error of xadd.
xadd_raised_Swallow(t, s, e) == [s EXCEPT !.pc = "done", !.res = "queued"]

\* await redis_client.xadd(...) raised an exception of kind e:
\* ConnectionError sets last_error and resets the client, another RedisError
\* sets last_error and breaks, so that `raise last_error` follows.
xadd_raised(t, s, e) ==
    CASE e = "conn" ->
            reset_redis_client(t, [s EXCEPT !.last_error = e,
                                            !.existing = NoClient,
                                            !.new_client = NoClient],
                               "append_except")
      [] e = "store" -> enqueue_failed([s EXCEPT !.last_error = e], e)

\* await redis_client.xadd(...) is over: it returned (out = "ok") and
\* append_command returns, or it raised.
xadd_done(t, out, land) ==
    /\ vpc[t] = "xadd"
    /\ made < MaxClients
    /\ out = "ok" => land
    /\ out = "store" => ~land
    /\ land => Len(cmdlog) < MaxEntries
    /\ RCommit(t, IF out = "ok"
                  THEN [RCur(t) EXCEPT !.pc = "done", !.res = "queued"]
                  ELSE xadd_raised(t, RCur(t), out))
    /\ IF land
       THEN /\ cmdlog' = Append(cmdlog, [tankId |-> key[t], valid |-> TRUE])
            /\ present' = present \cup {Len(cmdlog) + 1}
            /\ landed' = [landed EXCEPT ![t] = @ + 1]
       ELSE UNCHANGED <<cmdlog, present, landed>>
    /\ UNCHANGED FanoutRest
    /\ UNCHANGED StreamVars
    /\ UNCHANGED <<now, tanks, lock, sockState, closeCode, pc, op, t_now,
                   to_close, websocket, result, pre, snap, close_error, first_frame,
                   LifeVars>>
    /\ UNCHANGED <<last_id, batch, message_id, applied, xdels>>

\* The response of enqueue_command is sent: the request is over.
enqueue_returned(t) ==
    /\ vpc[t] = "done"
    /\ t \in Submitters
    /\ RCommit(t, [RCur(t) EXCEPT !.pc = "idle", !.res = None, !.ctx = None,
                                  !.existing = NoClient, !.new_client = NoClient,
                                  !.last_error = None, !.redis_client = NoClient,
                                  !.attempt = 0])
    /\ key' = [key EXCEPT ![t] = None]
    /\ landed' = [landed EXCEPT ![t] = 0]
    /\ UNCHANGED <<subscribers, latest, uiState, sockets, cur_ws, snaps,
                   msg, got, targets, handled, joined>>
    /\ UNCHANGED StreamVars
    /\ UNCHANGED BrokerVars

SubmitNext ==
    \/ \E t \in Submitters, k \in TankIds : enqueue_command(t, k)
    \/ \E t \in Submitters, out \in {"ok"} \cup ErrorKinds, land \in BOOLEAN :
          xadd_done(t, out, land)
    \/ \E t \in Submitters : enqueue_returned(t)
    \/ \E t \in Submitters : redis_lock_acquired(t)
    \/ \E t \in Submitters, ok \in BOOLEAN : reset_closed(t, ok)
    \/ \E t \in Submitters, ok \in BOOLEAN : reset_pinged(t, ok)
    \/ \E t \in Submitters, ok \in BOOLEAN : reset_unpinged(t, ok)

SubmitSpec == Init /\ [][SubmitNext]_vars

\* ===================================================================
\* Properties of the registry, checked under Spec.  A finished call is
\* observed in the state where its task is at "done": pre[t] holds the
\* registry and the clock of the moment the call began.
\* ===================================================================
Finished(t, name) == pc[t] = "done" /\ op[t].name = name

\* staleSeconds of the record of id when the call of t began exceeded the threshold
StaleAtCall(t, id) == pre[t].now - pre[t].tanks[id].last_seen > StaleTimeout

\* The records of the registry at the call of t that were not stale then.
FreshAtCall(t) == {id \in DOMAIN pre[t].tanks : ~StaleAtCall(t, id)}

\* C1: a device ID has at most one record with a live connection, and in every
\* step in which a record's live connection is replaced by another live
\* connection, the replaced connection is closed by the end of that step (its
\* close has completed before the new connection is the record's).
C1_OneLiveRecord ==
    \A id \in TankIds :
        Cardinality({k \in DOMAIN tanks :
                        tanks[k].tank_id = id /\ tanks[k].websocket # None}) <= 1

C1_ReplacedIsClosed ==
    \A id \in TankIds :
        ( /\ id \in DOMAIN tanks /\ tanks[id].websocket # None
          /\ id \in DOMAIN tanks' /\ tanks'[id].websocket # None
          /\ tanks'[id].websocket # tanks[id].websocket )
        => sockState'[tanks[id].websocket] = "closed"

C1_SupersedeClosesOld == []C1_OneLiveRecord /\ [][C1_ReplacedIsClosed]_vars

C1_Witness ==
    \E t \in SeqTasks, id \in TankIds :
        /\ Finished(t, "register_tank") /\ result[t] = "ok" /\ op[t].tank_id = id
        /\ id \in FreshAtCall(t)
        /\ pre[t].tanks[id].websocket # None
        /\ sockState[pre[t].tanks[id].websocket] = "closed"
        /\ tanks[id].websocket = op[t].websocket
        /\ sockState[op[t].websocket] = "open"

\* C4 as stated: a finished pruneStale has removed exactly the records that were
\* stale and held no live connection; a record with a live connection stays.
C4_Original ==
    \A t \in SeqTasks :
        Finished(t, "_prune_stale") =>
            \A id \in DOMAIN pre[t].tanks :
                (id \notin DOMAIN tanks) <=>
                    (StaleAtCall(t, id) /\ pre[t].tanks[id].websocket = None)

\* C4 amended: a finished pruneStale has removed exactly the records whose
\* staleSeconds exceeded the threshold, with or without a live connection; a
\* record with a live connection is removed exactly when it is stale.
C4_PruneRemovesExactlyStale ==
    \A t \in SeqTasks :
        Finished(t, "_prune_stale") =>
            /\ DOMAIN tanks = FreshAtCall(t)
            /\ \A id \in DOMAIN pre[t].tanks :
                  pre[t].tanks[id].websocket # None =>
                      ((id \notin DOMAIN tanks) <=> StaleAtCall(t, id))

C4_Witness ==
    \E t \in SeqTasks, a, b \in TankIds :
        /\ Finished(t, "_prune_stale")
        /\ a \in DOMAIN pre[t].tanks /\ b \in DOMAIN pre[t].tanks
        /\ pre[t].tanks[a].websocket # None /\ StaleAtCall(t, a)
        /\ a \notin DOMAIN tanks
        /\ ~StaleAtCall(t, b) /\ b \in DOMAIN tanks

\* C5: a finished pruneStale has removed every record that was stale and left
\* every other record as it was; the live connection of a removed record has
\* been closed by that call with the eviction close code.
C5_PruneClosesAndKeeps ==
    \A t \in SeqTasks :
        Finished(t, "_prune_stale") =>
            \A id \in DOMAIN pre[t].tanks :
                IF StaleAtCall(t, id)
                THEN /\ id \notin DOMAIN tanks
                     /\ pre[t].tanks[id].websocket # None =>
                           /\ sockState[pre[t].tanks[id].websocket] = "closed"
                           /\ closeCode[pre[t].tanks[id].websocket] = CLOSE_STALE
                ELSE /\ id \in DOMAIN tanks
                     /\ tanks[id] = pre[t].tanks[id]

C5_Witness ==
    \E t \in SeqTasks, a, b \in TankIds :
        /\ Finished(t, "_prune_stale")
        /\ a \in DOMAIN pre[t].tanks /\ StaleAtCall(t, a)
        /\ pre[t].tanks[a].websocket # None
        /\ closeCode[pre[t].tanks[a].websocket] = CLOSE_STALE
        /\ b \in DOMAIN pre[t].tanks /\ ~StaleAtCall(t, b)
        /\ pre[t].tanks[b].websocket # None /\ tanks[b] = pre[t].tanks[b]

\* C6 as stated: a forward to an unknown or disconnected device raises
\* LookupError and leaves the whole registry as it was; a forward to a device
\* with a live connection counts exactly one more command.
C6_Original ==
    \A t \in SeqTasks :
        Finished(t, "forward_to_tank") =>
            LET id == op[t].tank_id
                P == pre[t].tanks
            IN IF id \in DOMAIN P /\ P[id].websocket # None
               THEN /\ result[t] # "LookupError"
                    /\ id \in DOMAIN tanks
                    /\ tanks[id].commands_sent = P[id].commands_sent + 1
               ELSE /\ result[t] = "LookupError"
                    /\ tanks = P

\* C6 amended: the inline prune comes first.  A forward to a device that is
\* unknown, disconnected or stale at the call raises LookupError and leaves
\* every record that was not stale as it was (the stale ones are removed); a
\* forward to a device with a live connection and a record that is not stale
\* has counted exactly one more command when the send is attempted, and the
\* count stays whether the send returns or raises.
C6_ForwardCounts ==
    \A t \in SeqTasks :
        op[t].name = "forward_to_tank" =>
            LET id == op[t].tank_id
                P == pre[t].tanks
                live == id \in FreshAtCall(t) /\ P[id].websocket # None
                counted == /\ id \in DOMAIN tanks
                           /\ tanks[id] = [P[id] EXCEPT
                                             !.commands_sent = P[id].commands_sent + 1]
            IN /\ pc[t] = "fwd_send" => live /\ counted
               /\ pc[t] = "done" /\ live =>
                     result[t] \in {"ok", "send_failed"} /\ counted
               /\ pc[t] = "done" /\ ~live =>
                     /\ result[t] = "LookupError"
                     /\ tanks = [k \in FreshAtCall(t) |-> P[k]]

C6_Witness ==
    \E t \in SeqTasks :
        /\ Finished(t, "forward_to_tank") /\ result[t] = "send_failed"
        /\ op[t].tank_id \in DOMAIN tanks
        /\ tanks[op[t].tank_id].commands_sent =
              pre[t].tanks[op[t].tank_id].commands_sent + 1

\* C7: the claim.  A register whose handshake and hello succeeded has installed
\* the new connection and returned the record, also when closing the superseded
\* connection raised.
C7_CloseIsBestEffort ==
    \A t \in SeqTasks :
        ( /\ Finished(t, "register_tank")
          /\ result[t] \notin {"accept_failed", "send_failed"} )
        => /\ result[t] = "ok"
           /\ op[t].tank_id \in DOMAIN tanks
           /\ tanks[op[t].tank_id].websocket = op[t].websocket

\* C8 as stated: a register over an existing record carries last_payload and
\* commands_sent over.
C8_Original ==
    \A t \in SeqTasks :
        ( /\ Finished(t, "register_tank") /\ result[t] = "ok"
          /\ op[t].tank_id \in DOMAIN pre[t].tanks )
        => /\ tanks[op[t].tank_id].last_payload =
                 pre[t].tanks[op[t].tank_id].last_payload
           /\ tanks[op[t].tank_id].commands_sent =
                 pre[t].tanks[op[t].tank_id].commands_sent

\* C8 amended: a register over an existing record that is not stale at the call
\* carries last_payload and commands_sent over; connection, connected_at and
\* last_seen are the new ones.
C8_RegisterKeepsHistory ==
    \A t \in SeqTasks :
        ( /\ Finished(t, "register_tank") /\ result[t] = "ok"
          /\ op[t].tank_id \in FreshAtCall(t) )
        => tanks[op[t].tank_id] =
              [pre[t].tanks[op[t].tank_id] EXCEPT
                  !.websocket = op[t].websocket,
                  !.connected_at = now,
                  !.last_seen = now]

C8_Witness ==
    \E t \in SeqTasks :
        /\ Finished(t, "register_tank") /\ result[t] = "ok"
        /\ op[t].tank_id \in FreshAtCall(t)
        /\ pre[t].tanks[op[t].tank_id].last_payload \in Payloads
        /\ pre[t].tanks[op[t].tank_id].commands_sent > 0
        /\ pre[t].tanks[op[t].tank_id].connected_at < now
        /\ tanks[op[t].tank_id].websocket = op[t].websocket

\* snapshot() reports the records that were not stale at the call, each as it
\* was held: connected iff it had a connection, and its last_payload.
SnapshotShowsRecords(t) ==
    /\ DOMAIN snap[t] = FreshAtCall(t)
    /\ \A id \in FreshAtCall(t) :
          /\ snap[t][id].connected = (pre[t].tanks[id].websocket # None)
          /\ snap[t][id].lastPayload = pre[t].tanks[id].last_payload
          /\ snap[t][id].commandsSent = pre[t].tanks[id].commands_sent
          /\ snap[t][id].connectedAt = pre[t].tanks[id].connected_at

\* An unregister of a known record that is not stale keeps the record.
UnregisterKeepsRecord(t) ==
    op[t].tank_id \in FreshAtCall(t) =>
        /\ op[t].tank_id \in DOMAIN tanks
        /\ tanks[op[t].tank_id] =
              [pre[t].tanks[op[t].tank_id] EXCEPT
                  !.websocket = None, !.last_seen = now]

\* C9 as stated: ... and an unregister of an unknown device changes nothing.
C9_Original ==
    \A t \in SeqTasks :
        /\ Finished(t, "unregister_tank") =>
              /\ UnregisterKeepsRecord(t)
              /\ op[t].tank_id \notin DOMAIN pre[t].tanks => tanks = pre[t].tanks
        /\ Finished(t, "snapshot") => SnapshotShowsRecords(t)

\* C9 amended: an unregister of a known record that is not stale clears the
\* connection and refreshes last_seen and keeps everything else, and a snapshot
\* shows a record as it is held (connected false, the same lastPayload); an
\* unregister of an unknown device changes nothing but for the stale records,
\* which its inline prune removes.
C9_UnregisterKeepsRecord ==
    \A t \in SeqTasks :
        /\ Finished(t, "unregister_tank") =>
              /\ UnregisterKeepsRecord(t)
              /\ op[t].tank_id \notin DOMAIN pre[t].tanks =>
                    tanks = [k \in FreshAtCall(t) |-> pre[t].tanks[k]]
        /\ Finished(t, "snapshot") => SnapshotShowsRecords(t)

C9_Witness ==
    \E t \in SeqTasks :
        /\ Finished(t, "unregister_tank")
        /\ op[t].tank_id \in FreshAtCall(t)
        /\ pre[t].tanks[op[t].tank_id].websocket # None
        /\ pre[t].tanks[op[t].tank_id].last_payload \in Payloads
        /\ pre[t].tanks[op[t].tank_id].last_seen < now
        /\ tanks[op[t].tank_id].websocket = None

\* C10: update_last_seen on a known device sets last_seen to the clock and
\* last_payload to the payload passed if one was passed; the rest of the record,
\* and every other record, is as before.
C10_UpdateLastSeen ==
    \A t \in SeqTasks :
        Finished(t, "update_last_seen") =>
            LET id == op[t].tank_id
                P == pre[t].tanks
            IN /\ DOMAIN tanks = DOMAIN P
               /\ \A k \in DOMAIN P : k # id => tanks[k] = P[k]
               /\ id \in DOMAIN P =>
                     tanks[id] =
                        [P[id] EXCEPT
                            !.last_seen = now,
                            !.last_payload = IF op[t].payload = None
                                             THEN P[id].last_payload
                                             ELSE op[t].payload]

C10_Witness ==
    \E t \in SeqTasks :
        /\ Finished(t, "update_last_seen")
        /\ op[t].payload = None
        /\ op[t].tank_id \in DOMAIN pre[t].tanks
        /\ pre[t].tanks[op[t].tank_id].last_payload \in Payloads
        /\ pre[t].tanks[op[t].tank_id].last_seen < now
        /\ tanks[op[t].tank_id].last_payload \in Payloads

\* C11: a finished forceReset returned true exactly when a record of the device
\* existed at the call; the record is gone and every other record is as it was;
\* a live connection the record held has been closed with the reset code; and
\* all of that also when the close raised.
C11_ForceReset ==
    \A t \in SeqTasks :
        Finished(t, "force_reset") =>
            LET id == op[t].tank_id
                P == pre[t].tanks
            IN /\ (result[t] = "True") <=> (id \in DOMAIN P)
               /\ result[t] \in {"True", "False"}
               /\ tanks = Pop(P, {id})
               /\ (id \in DOMAIN P /\ P[id].websocket # None) =>
                     /\ sockState[P[id].websocket] = "closed"
                     /\ closeCode[P[id].websocket] = CLOSE_RESET

C11_Witness ==
    \E t \in SeqTasks :
        /\ Finished(t, "force_reset") /\ close_error[t]
        /\ op[t].tank_id \in DOMAIN pre[t].tanks
        /\ pre[t].tanks[op[t].tank_id].websocket # None
        /\ result[t] = "True"
        /\ op[t].tank_id \notin DOMAIN tanks
        /\ DOMAIN tanks # {}

\* ===================================================================
\* Properties of the command listener.
\* ===================================================================
Entries == 1..Len(cmdlog)

\* C2: an entry leaves the stream only after the forward for it returned; an
\* entry whose forward raised (LookupError or anything else) stays; xdel is
\* called only for a delivered entry, and no entry is deleted twice.
C2_DeleteOnlyDelivered ==
    /\ \A e \in Entries : e \notin present => applied[e] = "ok"
    /\ \A e \in Entries : xdels[e] <= 1
    /\ pc[Listener] = "xdel" => applied[message_id] = "ok"

C2_Witness ==
    \E d, f \in Entries :
        /\ d \notin present /\ applied[d] = "ok" /\ xdels[d] = 1
        /\ f \in present /\ applied[f] = "LookupError"

\* C3: the claim.  An entry that was read while its device was disconnected
\* (the forward raised LookupError, the entry is still in the stream) is,
\* once the device is connected again and stays so, eventually deleted.
C3_Redelivered ==
    \A e \in 1..MaxEntries :
        ( /\ e \in Entries /\ e \in present /\ applied[e] = "LookupError"
          /\ HasLive(tanks, cmdlog[e].tankId) )
        ~> ( \/ e \notin present
             \/ ~HasLive(tanks, cmdlog[e].tankId) )

\* The entries the listener has read and not yet processed.
InBatch == {batch[i] : i \in 1..Len(batch)}

\* The listener is inside the forward_to_tank call of _process_message.
Forwarding == op[Listener].name = "forward_to_tank"

\* An entry that failed validation is still in the stream, no xdel was called
\* for it, the cursor is past it and it is not among the entries read again;
\* a forward under way is never for such an entry.
C18_InvalidIsLeft ==
    /\ \A e \in Entries :
          applied[e] = "invalid" =>
              /\ e \in present /\ xdels[e] = 0
              /\ last_id >= e /\ e \notin InBatch
    /\ Forwarding => cmdlog[message_id].valid

\* The step that handles an entry failing validation sends nothing and changes
\* no record: the registry, the sockets and the listener's call state are as
\* before.
C18_InvalidStepIsSilent ==
    \A e \in 1..MaxEntries :
        (applied[e] # "invalid" /\ applied'[e] = "invalid") =>
            /\ UNCHANGED <<tanks, sockState, closeCode, present, xdels>>
            /\ ~Forwarding'

\* C18: a command-stream entry that fails validation is never passed to
\* forward: no frame is sent for it, no commands_sent counter changes, the
\* consumer does not delete it, and the same consumer run does not read it again.
C18_InvalidNeverForwarded == []C18_InvalidIsLeft /\ [][C18_InvalidStepIsSilent]_vars

C18_Witness ==
    \E e, f \in Entries :
        /\ e < f /\ applied[e] = "invalid" /\ e \in present
        /\ applied[f] = "ok" /\ f \notin present
        /\ cmdlog[e].tankId = cmdlog[f].tankId
        /\ pc[Listener] = "xread"

\* ===================================================================
\* Properties of the subscriber fan-out, checked under FanoutSpec.
\* ===================================================================
\* register_subscriber has returned for the UI WebSocket o.
Subscribed(o) == vpc[o] = "open"

\* The send_text calls register_subscriber made on o.
SentOnJoin(o) == {g \in got[o] : g.by = "subscribe"}

\* C12: an observer whose subscribe call has returned was sent, by that call,
\* the message cached for its key when it connected (or a newer one cached by
\* the time the call read the cache), for every stream with a cached message:
\* no broadcast is needed, and it does not matter that the key was absent
\* from the subscriber mapping.
C12_JoinerGetsCached ==
    \A o \in Observers :
        Subscribed(o) =>
            \A c \in Streams :
                key[o] \in DOMAIN joined[o].latest[c] =>
                    \E g \in SentOnJoin(o) :
                        g.stream = c /\ g.id >= joined[o].latest[c][key[o]]

C12_Witness ==
    \E o, p \in Observers :
        /\ o # p /\ Subscribed(o) /\ key[o] = key[p]
        /\ joined[o].subscribers = EmptySubs
        /\ key[o] \in DOMAIN joined[o].latest["status"]
        /\ \E g \in got[p] : g.by = "broadcast"
                              /\ g.id = joined[o].latest["status"][key[o]]
        /\ seen["status"] = {joined[o].latest["status"][key[o]]}
        /\ got[o] = {[stream |-> "status", id |-> joined[o].latest["status"][key[o]],
                      by |-> "subscribe"]}

\* C13: a broadcast runs to its end whatever the observers' sends do.  At its
\* end every observer of the copied set has been dealt with: one that looked
\* connected at its turn had send_text called with the message, also after the
\* send to another one raised; one that did not look connected is no longer in
\* the set of the key; one whose send raised is still subscribed as long as its
\* own handler has not unsubscribed it.
C13_BroadcastNeverFails ==
    \A c \in Streams :
        /\ vpc[c] # "sleep"
        /\ vpc[c] = "applied" =>
              \A o \in targets[c] :
                  /\ handled[c][o] \in {"sent", "raised", "removed"}
                  /\ handled[c][o] \in {"sent", "raised"} =>
                        [stream |-> c, id |-> msg[c], by |-> "broadcast"] \in got[o]
                  /\ handled[c][o] = "removed" =>
                        /\ uiState[o] # "connected"
                        /\ o \notin SubGet(subscribers, key[c])
                  /\ (handled[c][o] = "raised" /\ vpc[o] \in {"open", "snap_send"}) =>
                        o \in SubGet(subscribers, key[c])

C13_Witness ==
    \E c \in Streams, o, p \in Observers :
        /\ vpc[c] = "applied" /\ targets[c] = {o, p} /\ o # p
        /\ handled[c][o] = "raised" /\ handled[c][p] = "sent"
        /\ o \in SubGet(subscribers, key[c])
        /\ [stream |-> c, id |-> msg[c], by |-> "broadcast"] \in got[p]

\* The entries of stream c the listener applied for key k.
SeenFor(c, k) == {e \in seen[c] : vlog[c][e].key = k}

\* The listener of stream c is inside broadcast_status.
Broadcasting(c) == vpc[c] \in {"bcast", "sending", "applied"}

\* C14: the cache of a stream holds, for each key, exactly the message of the
\* most recent entry applied for the key; while a message is being sent to the
\* observers the cache already holds it, and no message sent by a broadcast is
\* newer than the cached one.
C14_CacheIsLatest ==
    \A c \in Streams :
        /\ DOMAIN latest[c] = {vlog[c][e].key : e \in seen[c]}
        /\ \A k \in DOMAIN latest[c] :
              /\ latest[c][k] \in SeenFor(c, k)
              /\ \A e \in SeenFor(c, k) : e <= latest[c][k]
        /\ Broadcasting(c) => latest[c][key[c]] = msg[c]
        /\ \A o \in Observers : \A g \in got[o] :
              (g.stream = c /\ g.by = "broadcast") =>
                  /\ vlog[c][g.id].key \in DOMAIN latest[c]
                  /\ g.id <= latest[c][vlog[c][g.id].key]

C14_Witness ==
    \E c \in Streams, k \in TankIds, o \in Observers :
        /\ k \in DOMAIN latest[c] /\ latest[c][k] = 2 /\ SeenFor(c, k) = {1, 2}
        /\ vpc[c] = "sending" /\ cur_ws[c] = o /\ msg[c] = 2
        /\ [stream |-> c, id |-> 1, by |-> "broadcast"] \in got[o]

\* C15: the subscriber mapping has no key with an empty set of observers.
C15_NoEmptyBucket == \A k \in DOMAIN subscribers : subscribers[k] # {}

C15_Witness ==
    \E o, p \in Observers :
        /\ vpc[o] = "closed" /\ got[o] # {} /\ key[o] \notin DOMAIN subscribers
        /\ Subscribed(p) /\ subscribers = [k \in {key[p]} |-> {p}]


(***************************************************************************)
(* C16.  A reset_redis_client() whose new client fails its ping raises: at *)
(* the step where it does, app.state.redis is None, the previous client    *)
(* (if there was one) and the client that failed are closed, and the       *)
(* caller does not go on with a client; and a get_redis_client() that      *)
(* finds app.state.redis None starts a reset of its own.                   *)
(***************************************************************************)
PingFailedStep(t) == vpc[t] = "r_pclose" /\ vpc'[t] # "r_pclose"

GetFindsNone(t) == vpc[t] = "idle" /\ vpc'[t] # "idle" /\ redis = NoClient

C16_FailedResetStep ==
    \A t \in Submitters :
       /\ PingFailedStep(t) =>
             /\ redis' = NoClient
             /\ redis_lock' = NoTask
             /\ clientState'[new_client[t]] = "closed"
             /\ existing[t] # NoClient => clientState'[existing[t]] = "closed"
             /\ vpc'[t] = "done" /\ vres'[t] = "503"
       /\ GetFindsNone(t) =>
             /\ ctx'[t] = "append_get"
             /\ vpc'[t] \in {"r_wait", "r_ping"}
             /\ vpc'[t] = "r_ping" => made' = made + 1 /\ new_client'[t] = made'

C16_FailedResetPublishesNothing == [][C16_FailedResetStep]_vars

\* A request ended with 503 because the ping of its new client failed, and
\* the next request found no client and is validating a fresh one.
C16_Witness ==
    \E t, u \in Submitters :
       /\ vpc[u] = "done" /\ vres[u] = "503" /\ ctx[u] = "append_except"
       /\ new_client[u] # NoClient /\ clientState[new_client[u]] = "closed"
       /\ vpc[t] = "r_ping" /\ ctx[t] = "append_get" /\ existing[t] = NoClient
       /\ new_client[t] # new_client[u]

(***************************************************************************)
(* C20.  A request of enqueue_command that ended answered "queued" only if *)
(* an xadd of it appended its command to the command stream; every other  *)
(* request ended answered 503, after an xadd or a reset raised a           *)
(* RedisError (an xadd that raised on both attempts, or raised an error    *)
(* that is not retried, appended nothing and so is among them); and a      *)
(* request that is over has left nothing of the command in the process.    *)
(***************************************************************************)
StoreFailed(t) == last_error[t] \in ErrorKinds \/ ctx[t] = "append_get"

C20_QueuedOnlyIfAppended ==
    \A t \in Submitters :
       /\ vpc[t] = "done" =>
             /\ vres[t] \in {"queued", "503"}
             /\ vres[t] = "queued" => landed[t] >= 1 /\ landed[t] <= Len(cmdlog)
             /\ vres[t] = "503" => StoreFailed(t)
             /\ landed[t] = 0 => vres[t] = "503"
       /\ vpc[t] = "idle" =>
             /\ key[t] = None /\ last_error[t] = None /\ redis_client[t] = NoClient
             /\ vres[t] = None

\* A request was answered 503 after ConnectionError on both attempts, with
\* one successful reset between them.
C20_Witness ==
    \E t \in Submitters :
       /\ vpc[t] = "done" /\ vres[t] = "503"
       /\ attempt[t] = 1 /\ last_error[t] = "conn" /\ landed[t] = 0
       /\ ctx[t] = "append_except"


(***************************************************************************)
(* C17.  The task of a listener ends only by cancellation: no listener is  *)
(* ever ended by an exception.                                             *)
(***************************************************************************)
C17_EndsOnlyOnCancel == \A c \in Streams : vpc[c] # "crashed"

(***************************************************************************)
(* C19.  The set of entries of a stream is changed only by an append or by *)
(* the store trimming its oldest entry, in a step in which no listener     *)
(* moves: no step of status_listener or radar_listener removes an entry.   *)
(***************************************************************************)
Appended(c) ==
    /\ Len(vlog'[c]) = Len(vlog[c]) + 1
    /\ vpresent'[c] = vpresent[c] \cup {Len(vlog'[c])}

Trimmed(c) ==
    /\ vpresent[c] # {}
    /\ vlog'[c] = vlog[c]
    /\ \E e \in vpresent[c] :
          /\ \A f \in vpresent[c] : e <= f
          /\ vpresent'[c] = vpresent[c] \ {e}

C19_StoreStep ==
    \A c \in Streams :
       vpresent'[c] # vpresent[c] =>
          /\ Appended(c) \/ Trimmed(c)
          /\ vpc' = vpc /\ vlast' = vlast /\ vbatch' = vbatch

C19_ListenerNeverDeletes == [][C19_StoreStep]_vars

\* status_listener has applied an entry, moved past it and read again, and the
\* entry is still in the stream.
C19_Witness ==
    \E m \in seen["status"] :
       /\ m \in vpresent["status"]
       /\ vlast["status"] = m
       /\ vpc["status"] = "xread"


(***************************************************************************)
(* C26.  A task that is suspended in a socket operation (accept, send or   *)
(* close on a device socket) does not hold the lock of the registry.       *)
(***************************************************************************)
SocketIoPcs == {"reg_accept", "reg_hello", "reg_close", "fwd_send",
                "prune_close", "reset_close"}

C26_NoSocketIoUnderLock ==
    \A t \in Tasks : pc[t] \in SocketIoPcs => lock # t


(***************************************************************************)
(* C30.  Every connection a record holds has been sent the hello frame,    *)
(* and the first frame a device receives on a connection is the hello      *)
(* frame; the only change register_tank makes to the registry before the   *)
(* hello frame was sent is the removal of the stale records by its inline  *)
(* _prune_stale.                                                           *)
(***************************************************************************)
StepOf(t) == pc'[t] # pc[t] \/ op'[t] # op[t]

RegisterChanges(t) ==
    StepOf(t) /\ op'[t].name = "register_tank" /\ tanks' # tanks

C30_HelloFirst ==
    /\ \A id \in DOMAIN tanks :
          tanks[id].websocket # None => first_frame[tanks[id].websocket] = "hello"
    /\ \A w \in Connections : first_frame[w] \in {None, "hello"}

C30_PruneOnlyBeforeHello ==
    \A t \in Tasks :
       RegisterChanges(t) /\ first_frame'[op'[t].websocket] # "hello" =>
          tanks' = Pop(tanks, StaleIds(tanks, now))

C30_HelloBeforeVisible == []C30_HelloFirst /\ [][C30_PruneOnlyBeforeHello]_vars

\* As the claim was stated: register_tank changes nothing of the registry
\* before the hello frame was sent.
C30_OriginalStep ==
    \A t \in Tasks :
       RegisterChanges(t) => first_frame'[op'[t].websocket] = "hello"

C30_Original == [][C30_OriginalStep]_vars

\* A command was sent on a connection whose first frame was the hello frame.
C30_Witness ==
    \E t \in Tasks :
       /\ pc[t] = "done" /\ op[t].name = "forward_to_tank" /\ result[t] = "ok"
       /\ first_frame[websocket[t]] = "hello"
       /\ sockState[websocket[t]] = "open"


(***************************************************************************)
(* C23.  While the record of a device ID exists its commands_sent never    *)
(* decreases, a record that is created starts at 0, and a snapshot reports *)
(* the counter of the record: the value only restarts when _prune_stale or *)
(* force_reset removed the record and the device registered again.         *)
(***************************************************************************)
SnapshotDone(t) == pc[t] = "done" /\ op[t].name = "snapshot"

C23_SnapshotReportsRecord ==
    \A t \in SeqTasks :
       SnapshotDone(t) =>
          /\ DOMAIN snap[t] = DOMAIN tanks
          /\ \A id \in DOMAIN snap[t] :
                snap[t][id].commandsSent = tanks[id].commands_sent

C23_CounterStep ==
    \A id \in TankIds :
       /\ id \in DOMAIN tanks /\ id \in DOMAIN tanks' =>
             tanks'[id].commands_sent >= tanks[id].commands_sent
       /\ id \notin DOMAIN tanks /\ id \in DOMAIN tanks' =>
             tanks'[id].commands_sent = 0

C23_MonotonicWhileKnown ==
    []C23_SnapshotReportsRecord /\ [][C23_CounterStep]_vars

\* As the claim was stated: a snapshot never reports less for a device ID
\* than an earlier snapshot did.
C23_Original ==
    \A t \in SeqTasks :
       SnapshotDone(t) =>
          \A id \in DOMAIN snap[t] : snap[t][id].commandsSent >= reported[id]

\* The device registered again over its record after a command was counted,
\* and the snapshot reports what the earlier snapshot reported.
C23_Witness ==
    \E t \in SeqTasks :
       /\ SnapshotDone(t)
       /\ "T1" \in DOMAIN snap[t]
       /\ snap[t]["T1"].commandsSent = 1
       /\ reported["T1"] = 1
       /\ snap[t]["T1"].connectedAt > 0


(***************************************************************************)
(* C27.  After an xread of the command listener failed with a connection   *)
(* error the shared client is reset before the listener reads again: the   *)
(* listener is never about to read while the loss is still unanswered.     *)
(***************************************************************************)
C27_ResetBeforeNextRead == pc[Listener] = "xread" => ~conn_lost

(***************************************************************************)
(* C28.  When the command listener has stopped because it was cancelled,   *)
(* no entry is left that was sent to its device and whose xdel was skipped *)
(* by the cancellation.                                                    *)
(***************************************************************************)
C28_NoEntryHalfApplied ==
    pc[Listener] = "cancelled" =>
       ~(cancelled_in = "xdel" /\ message_id \in present)

(***************************************************************************)
(* C21.  When on_shutdown of the broker has completed, every connection    *)
(* that a record of the registry still held is closed with the code of     *)
(* close_all.                                                              *)
(***************************************************************************)
C21_ShutdownClosesDevices ==
    shutdown = "stopped" =>
       \A id \in DOMAIN tanks :
          tanks[id].websocket # None =>
             /\ sockState[tanks[id].websocket] = "closed"
             /\ closeCode[tanks[id].websocket] = CLOSE_SHUTDOWN


(***************************************************************************)
(* C24.  In the started service a record that has become stale does not   *)
(* stay stale for ever: it is eventually removed (or refreshed by a call), *)
(* whether or not a handler calls the registry again.                      *)
(***************************************************************************)
StaleNow(id) == id \in DOMAIN tanks /\ IsStale(tanks[id], now)

C24_StaleEventuallyRemoved == StaleNow("T1") ~> ~StaleNow("T1")


(***************************************************************************)
(* C22.  Two register_tank calls for the same device run concurrently:     *)
(* only the holder of the lock changes the registry; the call that returns *)
(* a record has installed its own connection and the live connection it    *)
(* found is closed with 1011; when both calls have returned, the registry  *)
(* holds the connection of one of them, open, and the connection of the    *)
(* other is closed with 1011; and every call that was begun ends.          *)
(***************************************************************************)
RegisterReturned(t) ==
    pc[t] = "done" /\ op[t].name = "register_tank" /\ result[t] = "ok"

C22_OnlyHolderWrites ==
    lock # NoTask /\ tanks' # tanks => StepOf(lock)

C22_InstallStep ==
    \A t \in HandlerTasks :
       StepOf(t) /\ pc[t] # "done" /\ RegisterReturned(t)' =>
          /\ HasLive(tanks', op[t].tank_id)
          /\ tanks'[op[t].tank_id].websocket = op[t].websocket
          /\ lock' = NoTask
          /\ HasLive(tanks, op[t].tank_id) =>
                /\ sockState'[tanks[op[t].tank_id].websocket] = "closed"
                /\ closeCode'[tanks[op[t].tank_id].websocket] = CLOSE_STALE

C22_BothReturned ==
    \A t, u \in HandlerTasks :
       t # u /\ RegisterReturned(t) /\ RegisterReturned(u) =>
          /\ HasLive(tanks, "T1")
          /\ tanks["T1"].websocket \in {op[t].websocket, op[u].websocket}
          /\ sockState[tanks["T1"].websocket] = "open"
          /\ \A v \in {t, u} :
                op[v].websocket # tanks["T1"].websocket =>
                   /\ sockState[op[v].websocket] = "closed"
                   /\ closeCode[op[v].websocket] = CLOSE_STALE

C22_CallEnds ==
    \A t \in HandlerTasks : (pc[t] \notin {"idle", "done"}) ~> (pc[t] = "done")

C29_BatchAhead ==
    \A i \in DOMAIN batch :
       /\ batch[i] > last_id
       /\ i > 1 => batch[i] > batch[i - 1]

C29_CursorStep ==
    /\ last_id' >= last_id
    /\ pc[Listener] = "process" /\ StepOf(Listener) =>
          /\ Head(batch) > last_id
          /\ Head(batch) > message_id
          /\ last_id' = Head(batch)
          /\ message_id' = Head(batch)
    /\ message_id' # message_id => pc[Listener] = "process"
    /\ \A e \in DOMAIN applied : applied'[e] # applied[e] => e <= last_id'

C29_CursorOnlyForward == []C29_BatchAhead /\ [][C29_CursorStep]_vars

\* The same for status_listener and radar_listener of the visual controller.
C29_StreamCursorStep ==
    \A c \in Streams :
       /\ vlast'[c] >= vlast[c]
       /\ vpc[c] = "process" /\ vpc'[c] # vpc[c] /\ vpc'[c] \notin EndedPcs =>
             Head(vbatch[c]) > vlast[c] /\ vlast'[c] = Head(vbatch[c])
       /\ \A m \in seen'[c] \ seen[c] : m = vlast'[c] /\ m > vlast[c]

C29_StreamCursorOnlyForward == [][C29_StreamCursorStep]_vars

\* Both entries were applied in the order of the stream, the first of them
\* without success, and the cursor is at the second.
C29_Witness ==
    /\ last_id = 2
    /\ message_id = 2
    /\ applied[1] \notin {"unread", "ok"}
    /\ applied[2] # "unread"


(***************************************************************************)
(* C25.  When tank_channel has handled a frame: a text that is no JSON     *)
(* reached update_last_seen as {type: telemetry, raw: the text}; an object *)
(* without type reached it with type telemetry added and its members       *)
(* unchanged; an object with a type reached it unchanged; any other JSON   *)
(* value made the call with no payload and was not appended to the status  *)
(* stream; and nothing that is no dict is ever appended.                   *)
(***************************************************************************)
C25_FrameRoundTrip ==
    fpc = "handled" =>
       LET r == json_loads(message)
       IN /\ given.called
          /\ r.kind = "error" =>
                /\ given.present
                /\ DOMAIN given.obj = {"type", "raw"}
                /\ given.obj["type"] = "telemetry"
                /\ given.obj["raw"] = message
          /\ r.kind = "object" =>
                /\ given.present
                /\ DOMAIN given.obj = DOMAIN r.obj \cup {"type"}
                /\ \A k \in DOMAIN r.obj : given.obj[k] = r.obj[k]
                /\ "type" \notin DOMAIN r.obj => given.obj["type"] = "telemetry"
          /\ r.kind = "scalar" => ~given.present /\ stored = "no"
          /\ stored # "no" => given.present

\* The frame {"type": "status", "a": 1} was handled: it reached
\* update_last_seen with its own type and was appended.
C25_Witness ==
    /\ fpc = "handled"
    /\ message = <<"{", "type:status", "a:1", "}">>
    /\ given.present
    /\ given.obj["type"] = "status"
    /\ given.obj["a"] = "1"
    /\ stored = "appended"


(***************************************************************************)
(* C38.  Within a run of the command listener _process_message is started  *)
(* for an entry only if it was never started for it before: an entry that  *)
(* was forwarded stays forwarded once, whether its xdel or a later xread   *)
(* failed, and the outcome noted for an entry is never replaced.           *)
(***************************************************************************)
C38_ApplyStep ==
    /\ pc[Listener] = "process" /\ StepOf(Listener) =>
          applied[Head(batch)] = "unread"
    /\ \A e \in DOMAIN applied :
          applied[e] # "unread" => applied'[e] = applied[e]

C38_ForwardedAtMostOnce == [][C38_ApplyStep]_vars

\* Entry 1 was sent to its device, its xdel failed and it is still in the
\* stream; the listener has read again and applied entry 2.
C38_Witness ==
    /\ applied[1] = "ok"
    /\ 1 \in present
    /\ xdels[1] = 0
    /\ applied[2] # "unread"
    /\ pc[Listener] = "xread"


(***************************************************************************)
(* C37.  When forward_to_tank starts its send, the WebSocket it sends on   *)
(* is the one the record holds, and no call of the registry (supersede,    *)
(* prune or force_reset) has closed it: its close code is still unset.     *)
(***************************************************************************)
C37_SendStep ==
    \A t \in Tasks :
       pc[t] # "fwd_send" /\ pc'[t] = "fwd_send" =>
          /\ HasLive(tanks', op'[t].tank_id)
          /\ tanks'[op'[t].tank_id].websocket = websocket'[t]
          /\ closeCode'[websocket'[t]] = 0

C37_SendsOnLiveConnection == [][C37_SendStep]_vars


\* ===================================================================
\* tank_channel: the handler of one device connection, from register_tank to
\* the unregister_tank of its except branches.  The handler keeps the
\* WebSocket it was called with in op[t].websocket while it is in its loop.
\* ===================================================================
\* await manager.register_tank(tank_id, websocket) returned: the handler
\* enters `while True` and awaits websocket.receive_text().
channel_registered(t) ==
    /\ pc[t] = "done"
    /\ op[t].name = "register_tank"
    /\ result[t] = "ok"
    /\ Resume(t, [Cur(t) EXCEPT !.pc = "receive"])

\* The device closes its end of the connection.
device_disconnects(t) ==
    /\ pc[t] = "receive"
    /\ sockState[op[t].websocket] = "open"
    /\ Resume(t, [Cur(t) EXCEPT !.sockState[op[t].websocket] = "closed"])

\* except WebSocketDisconnect / except Exception: await
\* manager.unregister_tank(tank_id).  It is reached when register_tank raised,
\* and when the receive raised because the handler's connection is closed.
channel_unregister(t) ==
    /\ op[t].name = "register_tank"
    /\ \/ pc[t] = "done" /\ result[t] # "ok"
       \/ pc[t] = "receive" /\ sockState[op[t].websocket] = "closed"
    /\ Call(t, UnregisterOp(op[t].tank_id),
            prune_stale(t, UnregisterOp(op[t].tank_id), Cur(t)))

\* The outcomes of storing a frame's telemetry that leave the handler in its
\* loop: xadd returned; xadd raised a RedisError that is not a ConnectionError
\* (logged); xadd raised ConnectionError and reset_redis_client() returned.
StoreOutcomes == {"appended", "RedisError", "reset"}

\* try: redis_client = await get_redis_client(); await redis_client.xadd(...)
\* except ConnectionError: await reset_redis_client()
\* except RedisError: print(...)
\* for a frame received on the handler's open connection.  The
\* update_last_seen before it does not touch the record's websocket.
channel_store(t, outcome) ==
    /\ pc[t] = "receive"
    /\ sockState[op[t].websocket] = "open"
    /\ outcome \in StoreOutcomes
    /\ Resume(t, [Cur(t) EXCEPT !.result = outcome])

\* xadd raised ConnectionError and the reset_redis_client() awaited in the
\* except clause raised too: the exception leaves the loop for the outer
\* `except Exception`, which awaits manager.unregister_tank(tank_id).
channel_store_failed(t) ==
    /\ pc[t] = "receive"
    /\ sockState[op[t].websocket] = "open"
    /\ Call(t, UnregisterOp(op[t].tank_id),
            prune_stale(t, UnregisterOp(op[t].tank_id), Cur(t)))

\* unregister_tank returned and tank_channel is over.
channel_return(t) ==
    /\ op[t].name = "unregister_tank"
    /\ Return(t)

\* A handler whose call of the registry is over goes on at once, in the same
\* stretch of the event loop: no other task runs before it has.
NoneReturning(t) == \A u \in HandlerTasks \ {t} : pc[u] # "done"

\* Two connections of device T1, each with its own handler task.
ChannelNext ==
    \/ \E t \in HandlerTasks, w \in Sockets :
          NoneReturning(t) /\ register_tank(t, "T1", w)
    \/ \E t \in HandlerTasks : NoneReturning(t) /\ lock_acquired(t)
    \/ \E t \in HandlerTasks, ok \in BOOLEAN : NoneReturning(t) /\ reg_accept(t, ok)
    \/ \E t \in HandlerTasks, ok \in BOOLEAN : NoneReturning(t) /\ reg_hello(t, ok)
    \/ \E t \in HandlerTasks, ok \in BOOLEAN : NoneReturning(t) /\ reg_close(t, ok)
    \/ \E t \in HandlerTasks : channel_registered(t)
    \/ \E t \in HandlerTasks : NoneReturning(t) /\ device_disconnects(t)
    \/ \E t \in HandlerTasks : NoneReturning(t) /\ channel_unregister(t)
    \/ \E t \in HandlerTasks, outcome \in StoreOutcomes :
          NoneReturning(t) /\ channel_store(t, outcome)
    \/ \E t \in HandlerTasks : NoneReturning(t) /\ channel_store_failed(t)
    \/ \E t \in HandlerTasks : channel_return(t)

ChannelSpec == Init /\ [][ChannelNext]_vars

(***************************************************************************)
(* C31.  A handler of tank_channel that is in its read loop on a           *)
(* connection that is open has that connection in the record of its        *)
(* device: the unregister_tank of a superseded connection's handler does   *)
(* not clear the connection that superseded it.                            *)
(***************************************************************************)
C31_LiveConnectionStaysRegistered ==
    \A t \in HandlerTasks :
       pc[t] = "receive" /\ sockState[op[t].websocket] = "open" =>
          /\ HasLive(tanks, op[t].tank_id)
          /\ tanks[op[t].tank_id].websocket = op[t].websocket


(***************************************************************************)
(* C36.  Storing a frame's telemetry, however the log store fails, leaves  *)
(* the device registered: a handler of tank_channel that is in its read    *)
(* loop on an open connection stays in the loop on that connection: it     *)
(* does not go on to unregister_tank.                                      *)
(***************************************************************************)
C36_StoreStep ==
    \A t \in HandlerTasks :
       pc[t] = "receive" /\ sockState[op[t].websocket] = "open" =>
          /\ pc'[t] = "receive"
          /\ op'[t] = op[t]

C36_StoreFailureKeepsRegistration == [][C36_StoreStep]_vars


(***************************************************************************)
(* C32.  The client a request of append_command was given by               *)
(* get_redis_client() or reset_redis_client() is open for as long as the   *)
(* request uses it for its xadd: no other task's get or reset closes it.   *)
(***************************************************************************)
C32_HandleInUseStaysOpen ==
    \A t \in Submitters :
       vpc[t] = "xadd" => clientState[redis_client[t]] = "open"


(***************************************************************************)
(* C33.  status_listener outlives a failed reset: when the                 *)
(* reset_redis_client() it awaits after an xread that raised               *)
(* ConnectionError raises too, because the ping of the new client failed,  *)
(* the task is not ended by that exception; it is still in its loop and    *)
(* goes on to read again.                                                  *)
(***************************************************************************)
C33_ResetFailureStep ==
    vpc["status"] = "r_pclose" /\ ctx["status"] = "listener_except" =>
       vpc'["status"] # "crashed"

C33_ConsumerSurvivesOutage == [][C33_ResetFailureStep]_vars


(***************************************************************************)
(* C34.  An observer is sent the messages of its key in stream order: the  *)
(* cached message register_subscriber sends it is not of an older entry    *)
(* than a message of the same stream it has been sent before.              *)
(***************************************************************************)
C34_SnapshotStep ==
    \A o \in Observers :
       \A m \in got'[o] \ got[o] :
          m.by = "subscribe" =>
             \A p \in got[o] : p.stream = m.stream => p.id <= m.id

C35_Subscribed(o) ==
    /\ vpc[o] = "open"
    /\ uiState[o] = "connected"
    /\ o \in SubGet(subscribers, key[o])

C35_AppliedFor(o) ==
    {m \in seen["status"] :
        /\ vlog["status"][m].key = key[o]
        /\ ~(msg["status"] = m /\ vpc["status"] \in {"bcast", "sending"})}

C35_SentEntry(o, m) ==
    \E g \in got[o] : g.stream = "status" /\ g.id = m

====
